---- MODULE Spec2Model ----
(***************************************************************************)
(* The streaming session engine of the chat client: the stream decoder of  *)
(* api/client.ts, the usage and cost functions of utils/pricing.ts, the    *)
(* zustand store of store/appStore.ts and the submit handlers of           *)
(* SingleChatPanel, ComparePanel and CrewPanel.                            *)
(*                                                                         *)
(* Conventions.                                                            *)
(*  - Text is a TLA+ string; "" stands for both the absent and the empty   *)
(*    string wherever the code only tests truthiness (e.text, e.message).  *)
(*  - An optional number or object is a sequence of length 0 (absent,      *)
(*    undefined, null) or 1 (present).                                     *)
(*  - Money is an integer number of 1e-8 USD: the table of pricing.ts is   *)
(*    held in hundredths of a dollar per million tokens, so that           *)
(*    (tokensIn*input + tokensOut*output)/1e6 USD is the integer           *)
(*    tokensIn*input100 + tokensOut*output100 in units of 1e-8 USD.        *)
(*  - One behaviour of Spec is one browser session in one chat mode; the   *)
(*    submit handler's awaits are the points between actions.              *)
(*  - A response body of SpecDecoder is a sequence of one-character        *)
(*    strings; one behaviour is one way of cutting it into chunks.         *)
(***************************************************************************)
EXTENDS Integers, Sequences, FiniteSets, TLC

\* ------------------------------------------------------------------ bounds

\* Events delivered by the server over the whole session.
MaxEvents == 3
\* Events delivered by the server over a crew session.
MaxCrewEvents == 4
\* Pieces (a line break, a separator, a block) a response body is made of.
MaxPieces == 4
\* Sends accepted over the whole session.
MaxSends == 2

\* ------------------------------------------------------- optional values

Absent == <<>>
Some(v) == <<v>>
\* JS `x ?? d`
OrElse(opt, d) == IF opt = Absent THEN d ELSE opt[1]

\* ---------------------------------------------------------------- pricing

\* pricing.ts PRICING, rates in 1/100 USD per million tokens.
PRICING ==
  [m \in {"anthropic/claude-sonnet-4-5", "anthropic/claude-sonnet-4",
          "anthropic/claude-3.5-sonnet", "anthropic/claude-opus-4",
          "anthropic/claude-3-haiku", "openai/gpt-4.1", "openai/gpt-4o",
          "openai/gpt-4o-mini", "google/gemini-2.5-pro",
          "google/gemini-2.0-flash", "deepseek/deepseek-r1",
          "deepseek/deepseek-chat"} |->
     CASE m = "anthropic/claude-sonnet-4-5" -> [input |-> 300, output |-> 1500]
       [] m = "anthropic/claude-sonnet-4" -> [input |-> 300, output |-> 1500]
       [] m = "anthropic/claude-3.5-sonnet" -> [input |-> 300, output |-> 1500]
       [] m = "anthropic/claude-opus-4" -> [input |-> 1500, output |-> 7500]
       [] m = "anthropic/claude-3-haiku" -> [input |-> 25, output |-> 125]
       [] m = "openai/gpt-4.1" -> [input |-> 200, output |-> 800]
       [] m = "openai/gpt-4o" -> [input |-> 250, output |-> 1000]
       [] m = "openai/gpt-4o-mini" -> [input |-> 15, output |-> 60]
       [] m = "google/gemini-2.5-pro" -> [input |-> 125, output |-> 1000]
       [] m = "google/gemini-2.0-flash" -> [input |-> 10, output |-> 40]
       [] m = "deepseek/deepseek-r1" -> [input |-> 55, output |-> 219]
       [] m = "deepseek/deepseek-chat" -> [input |-> 14, output |-> 28]]

FALLBACK_PRICING_RATE == [input |-> 100, output |-> 300]

CharsPerToken == 4

\* estimateTokens rounding down instead of up.
estimateTokensFloor(text) == Len(text) \div CharsPerToken

\* Math.ceil(text.length / 4)
estimateTokens(text) == (Len(text) + CharsPerToken - 1) \div CharsPerToken

\* A lookup that prices an unknown model id at nothing.
getPricingOrZero(modelId) ==
  IF modelId \in DOMAIN PRICING THEN PRICING[modelId] ELSE [input |-> 0, output |-> 0]

\* PRICING[modelId] ?? FALLBACK_PRICING_RATE
getPricing(modelId) ==
  IF modelId \in DOMAIN PRICING THEN PRICING[modelId] ELSE FALLBACK_PRICING_RATE

calculateCost(tokensIn, tokensOut, modelId) ==
  LET rate == getPricing(modelId)
  IN  tokensIn * rate.input + tokensOut * rate.output

\* ------------------------------------------------- single/compare events

\* StreamUsage objects the server may report (prompt_tokens, completion_tokens
\* each optional).
StreamUsages ==
  { [prompt_tokens |-> Some(10), completion_tokens |-> Some(5)],
    [prompt_tokens |-> Absent, completion_tokens |-> Some(7)] }

Sides == {"left", "right"}
NoSide == "none"

\* A StreamEvent; fields an event type does not carry hold their absent value.
Ev(type, text, side, usage, message) ==
  [type |-> type, text |-> text, side |-> side, usage |-> usage, message |-> message]

DeltaTexts == {"", "abc"}
ErrorMessages == {"", "boom"}

StreamEventsFor(sides) ==
  {Ev("start", "", NoSide, Absent, "")}
    \cup {Ev("delta", t, s, Absent, "") : t \in DeltaTexts, s \in sides}
    \cup {Ev("done", "", s, u, "") :
            u \in {Absent} \cup {Some(x) : x \in StreamUsages}, s \in sides}
    \cup {Ev("complete", "", s, Some([prompt_tokens |-> Some(10), completion_tokens |-> Some(5)]), "") :
            s \in sides}
    \cup {Ev("error", "", s, Absent, m) : m \in ErrorMessages, s \in sides}

\* Single mode: events carry no side.  Compare mode: a side tag may be
\* left, right or missing.
SingleEvents == StreamEventsFor({NoSide})
CompareEvents == StreamEventsFor(Sides \cup {NoSide})

IsUsageBearing(e) == e.type \in {"done", "complete"} /\ e.usage # Absent
IsTerminal(e) == e.type \in {"done", "complete", "error"}

\* Messages of the errors thrown out of the read loop: a transport failure
\* (fetch or reader.read rejects, non-2xx, missing body) or JSON.parse's
\* SyntaxError.
ThrownMessages == {"Failed to fetch", "Unexpected token"}

\* Prompts the user may type (the field starts empty).
Prompts == {"hey", "prompt!"}
WhitespaceOnly == {"", " "}
\* prompt.trim().length > 0
TrimNonEmpty(s) == s \notin WhitespaceOnly

\* Model ids the user may have selected: the store's defaults (neither is in
\* the pricing table) and one priced model per selector.
DefaultModelId == "openrouter/auto"
DefaultRightModelId == "openrouter/free"
ModelIds == {DefaultModelId, "openai/gpt-4o"}
ComparePairs == {<<DefaultModelId, DefaultRightModelId>>,
                 <<"openai/gpt-4o", "anthropic/claude-3-haiku">>}

\* UsageInfo / SideUsage
UsageInfo(tokensIn, tokensOut, cost, estimated) ==
  [tokensIn |-> tokensIn, tokensOut |-> tokensOut, cost |-> cost, estimated |-> estimated]

\* A record that counts as estimated when the server left a field out.
ServerUsagePartialEstimated(e, modelId) ==
  LET tokensIn == OrElse(e.usage[1].prompt_tokens, 0)
      tokensOut == OrElse(e.usage[1].completion_tokens, 0)
  IN  UsageInfo(tokensIn, tokensOut, calculateCost(tokensIn, tokensOut, modelId),
                e.usage[1].prompt_tokens = Absent \/ e.usage[1].completion_tokens = Absent)

\* The server-derived record of a usage-bearing done/complete event.
ServerUsage(e, modelId) ==
  LET tokensIn == OrElse(e.usage[1].prompt_tokens, 0)
      tokensOut == OrElse(e.usage[1].completion_tokens, 0)
  IN  UsageInfo(tokensIn, tokensOut, calculateCost(tokensIn, tokensOut, modelId), FALSE)

\* The estimated record of the finally block.
EstimatedUsage(promptText, acc, modelId) ==
  LET tokensIn == estimateTokens(promptText)
      tokensOut == estimateTokens(acc)
  IN  UsageInfo(tokensIn, tokensOut, calculateCost(tokensIn, tokensOut, modelId), TRUE)

\* A fallback made whenever the server reported no usage, text or not.
ShouldEstimateWithoutText(got, acc) == ~got

\* The finally block's guard without its !gotServerUsage conjunct.
ShouldEstimateAnyText(gotUsage, acc) == Len(acc) > 0

\* The finally block's guard: !gotServerUsage && accumulated.length > 0
ShouldEstimate(gotUsage, acc) == ~gotUsage /\ Len(acc) > 0

\* ------------------------------------------------------------------ state

VARIABLES
  \* store/appStore.ts
  chatMode, single, left, right,
  agentOutputs, synthesisText, crewTotalCost, crewBudget,
  sessionTokensIn, sessionTokensOut, sessionCost,
  \* CrewPanel: React state
  task, isRunning, error,
  \* per agent, the agent_done events the current crew stream delivered
  crewHist,
  \* streamFromResponse: the response body, how much of it the reader has
  \* delivered, the generator's buffer, the events it has yielded and where
  \* it stands; and whether a chunk ended between the two line breaks of a
  \* pair, or between two characters of a block
  body, consumed, buffer, yielded, reader, cutInSeparator, cutInFrame,
  \* the mounted chat panel (SingleChatPanel or ComparePanel): React state,
  \* refs and the locals of the running submit()
  prompt, busy, promptRef,
  response, usage, gotServerUsage, accumulated,
  leftOutput, rightOutput, leftUsage, rightUsage,
  leftAccRef, rightAccRef, gotLeftUsage, gotRightUsage,
  \* history of the current send: per event tag what the stream has
  \* delivered, the addUsage calls made, how the stream ended, the session
  \* totals and the prompt when the send was accepted; and the session's
  \* counts of sends and events
  hist, calls, ended, totalsAtSubmit, submitted, sends, delivered,
  \* the requests fetch has sent to the streaming endpoints, and the crew
  \* stream, if any, that is still being read after its panel was unmounted
  requests, abandoned

choiceVars == <<chatMode, single, left, right>>
crewStoreVars == <<agentOutputs, synthesisText, crewTotalCost, crewBudget>>
crewVars == <<crewStoreVars, task, isRunning, error, crewHist, abandoned>>
decoderVars == <<body, consumed, buffer, yielded, reader, cutInSeparator, cutInFrame>>
totalVars == <<sessionTokensIn, sessionTokensOut, sessionCost>>
singleVars == <<response, usage, gotServerUsage, accumulated>>
compareVars == <<leftOutput, rightOutput, leftUsage, rightUsage,
                 leftAccRef, rightAccRef, gotLeftUsage, gotRightUsage>>
panelVars == <<prompt, busy, promptRef>>
historyVars == <<hist, calls, ended, totalsAtSubmit, submitted, sends, delivered, requests>>

chatVars == <<panelVars, singleVars, compareVars, hist, calls, totalsAtSubmit, submitted>>

sessionVars == <<choiceVars, crewVars, totalVars, panelVars, singleVars, compareVars, historyVars>>

vars == <<sessionVars, decoderVars>>

NoUsage == Absent

Totals == [tokensIn |-> sessionTokensIn, tokensOut |-> sessionTokensOut, cost |-> sessionCost]

\* Totals that become the latest usage rather than grow by it.
addUsageLatest(t, info) ==
  [tokensIn |-> info.tokensIn, tokensOut |-> info.tokensOut, cost |-> info.cost]

\* appStore addUsage, on the three session totals.
addUsage(t, info) ==
  [tokensIn |-> t.tokensIn + info.tokensIn,
   tokensOut |-> t.tokensOut + info.tokensOut,
   cost |-> t.cost + info.cost]

\* addUsage for each call of a sequence, in order.
RECURSIVE addUsages(_, _)
addUsages(t, cs) ==
  IF cs = <<>> THEN t ELSE addUsages(addUsage(t, Head(cs).info), Tail(cs))

SetTotals(t) ==
  /\ sessionTokensIn' = t.tokensIn
  /\ sessionTokensOut' = t.tokensOut
  /\ sessionCost' = t.cost

Call(unit, info) == [unit |-> unit, info |-> info]

\* ---------------------------------------------------------------- history

\* The tag an event is delivered under: the one stream of single mode, or in
\* compare mode the event's side (NoSide when it carries none).
Tags == {"single"} \cup Sides \cup {NoSide}
TagOf(mode, e) == IF mode = "single" THEN "single" ELSE e.side

\* Per tag: whether an event was delivered (start events carry no tag and are
\* not counted), the number of usage-bearing done/complete events, whether a
\* terminal event was delivered, the concatenation of the delivered delta
\* texts, the last usage reported.
NoHistory ==
  [t \in Tags |-> [events |-> FALSE, usageEvents |-> 0, terminal |-> FALSE,
                   errored |-> FALSE, streamed |-> "", reported |-> Absent]]

Record(h, mode, e) ==
  IF e.type = "start" THEN h
  ELSE LET t == TagOf(mode, e)
       IN  [h EXCEPT ![t] =
              [events |-> TRUE,
               usageEvents |-> @.usageEvents + (IF IsUsageBearing(e) THEN 1 ELSE 0),
               terminal |-> (@.terminal \/ IsTerminal(e)),
               errored |-> (@.errored \/ e.type = "error"),
               streamed |-> IF e.type = "delta" THEN @.streamed \o e.text ELSE @.streamed,
               reported |-> IF IsUsageBearing(e) THEN e.usage ELSE @.reported]]

\* ------------------------------------------------------------ crew events

Agents == {"planner", "coder"}

\* A CrewStreamEvent; fields an event type does not carry hold their absent
\* value ("" for agent, model, text and message).
CrewEv(type, agents, agent, model, text, cost, tokens, totalCost, message) ==
  [type |-> type, agents |-> agents, agent |-> agent, model |-> model, text |-> text,
   cost |-> cost, tokens |-> tokens, totalCost |-> totalCost, message |-> message]

AgentDoneEvents ==
  {CrewEv("agent_done", Absent, a, "", "", c, t, Absent, "") :
     a \in Agents, c \in {Absent, Some(0), Some(5)}, t \in {Absent, Some(40)}}
    \cup {CrewEv("agent_done", Absent, "", "", "", Some(5), Some(40), Absent, "")}

CrewEvents ==
  {CrewEv("crew_start", ags, "", "", "", Absent, Absent, Absent, "") :
     ags \in {Absent, Some(<<"planner">>), Some(<<"planner", "coder">>)}}
    \cup {CrewEv("plan", Absent, "", "", "", Absent, Absent, Absent, "")}
    \cup {CrewEv("agent_start", Absent, a, m, "", Absent, Absent, Absent, "") :
            a \in Agents, m \in {"", "m1"}}
    \cup {CrewEv("agent_start", Absent, "", "m1", "", Absent, Absent, Absent, "")}
    \cup {CrewEv("agent_delta", Absent, a, "", t, Absent, Absent, Absent, "") :
            a \in Agents, t \in {"", "step 1"}}
    \cup {CrewEv("agent_delta", Absent, "planner", "", " 2", Absent, Absent, Absent, "")}
    \cup {CrewEv("agent_delta", Absent, "", "", "step 1", Absent, Absent, Absent, "")}
    \cup AgentDoneEvents
    \cup {CrewEv("synthesis_delta", Absent, "", "", t, Absent, Absent, Absent, "") :
            t \in {"", "sum"}}
    \cup {CrewEv("crew_done", Absent, "", "", "", Absent, Absent, tc, "") :
            tc \in {Absent, Some(0), Some(2)}}
    \cup {CrewEv("error", Absent, "", "", "", Absent, Absent, Absent, m) :
            m \in ErrorMessages}

Tasks == {"build it"}

\* agentOutputs: {}
NoAgents == [a \in {} |-> Absent]

\* crewBudget: 5.0, in USD
DefaultCrewBudget == 5

\* Where an agent stands in the run crew_start, agent_start, agent_delta...,
\* agent_done of the events that concern it, with the model, the texts and
\* the cost and tokens those events carried; "off" once the events that
\* concern it have left that order.
NoScript ==
  [stage |-> "idle", model |-> "", text |-> "", cost |-> Absent, tokens |-> Absent]

Names(agents) == {agents[i] : i \in DOMAIN agents}

Concerns(e, a) ==
  \/ e.type = "crew_start" /\ e.agents # Absent /\ a \in Names(e.agents[1])
  \/ e.type \in {"agent_start", "agent_delta", "agent_done"} /\ e.agent = a

ScriptStep(sc, e, a) ==
  IF ~Concerns(e, a) THEN sc
  ELSE CASE e.type = "crew_start" /\ sc.stage = "idle" ->
              [sc EXCEPT !.stage = "listed"]
         [] e.type = "agent_start" /\ sc.stage = "listed" ->
              [sc EXCEPT !.stage = "started", !.model = e.model]
         [] e.type = "agent_delta" /\ sc.stage \in {"started", "streaming"} ->
              [sc EXCEPT !.stage = "streaming", !.text = @ \o e.text]
         [] e.type = "agent_done" /\ sc.stage = "streaming" ->
              [sc EXCEPT !.stage = "done", !.cost = e.cost, !.tokens = e.tokens]
         [] OTHER -> [NoScript EXCEPT !.stage = "off"]

NoCrewHistory == [a \in Agents |-> [dones |-> 0, last |-> Absent, script |-> NoScript]]

\* ------------------------------------------------------------------- Init

\* No crew stream has outlived its panel.  applied and last record what
\* such a stream has done to the store since the latest resetCrewState.
NoAbandoned == [inFlight |-> FALSE, applied |-> 0, last |-> Absent]

InitWith(modes, singles, pairs) ==
  /\ chatMode \in modes
  /\ single \in (IF chatMode = "single" THEN singles ELSE {DefaultModelId})
  /\ \E pair \in (IF chatMode = "compare" THEN pairs
                  ELSE {<<DefaultModelId, DefaultRightModelId>>}) :
        left = pair[1] /\ right = pair[2]
  /\ sessionTokensIn = 0 /\ sessionTokensOut = 0 /\ sessionCost = 0
  /\ prompt = "" /\ busy = FALSE /\ promptRef = ""
  /\ response = "" /\ usage = NoUsage /\ gotServerUsage = FALSE /\ accumulated = ""
  /\ leftOutput = "" /\ rightOutput = "" /\ leftUsage = NoUsage /\ rightUsage = NoUsage
  /\ leftAccRef = "" /\ rightAccRef = "" /\ gotLeftUsage = FALSE /\ gotRightUsage = FALSE
  /\ hist = NoHistory /\ calls = <<>> /\ ended = "none"
  /\ totalsAtSubmit = [tokensIn |-> 0, tokensOut |-> 0, cost |-> 0]
  /\ submitted = ""
  /\ sends = 0 /\ delivered = 0
  /\ requests = 0 /\ abandoned = NoAbandoned
  /\ agentOutputs = NoAgents /\ synthesisText = "" /\ crewTotalCost = 0
  /\ crewBudget = DefaultCrewBudget
  /\ task = "" /\ isRunning = FALSE /\ error = Absent
  /\ crewHist = NoCrewHistory

\* The store and the panels as constructed, in one of the chat modes, with
\* the model choices the user may have made.
InitSession(modes) == InitWith(modes, ModelIds, ComparePairs)

\* No response body is being decoded.
DecoderIdle ==
  /\ body = <<>> /\ consumed = 0 /\ buffer = <<>> /\ yielded = <<>>
  /\ reader = "idle" /\ cutInSeparator = FALSE /\ cutInFrame = FALSE

\* A session in single or compare mode.
Init == InitSession({"single", "compare"}) /\ DecoderIdle

\* ------------------------------------------------------- the prompt field

\* onChange of the prompt textarea; it is not disabled while a stream runs.
SetPrompt(p) ==
  /\ chatMode \in {"single", "compare"}
  /\ prompt # p
  /\ prompt' = p
  /\ UNCHANGED <<decoderVars, choiceVars, crewVars, totalVars, busy, promptRef, singleVars, compareVars, historyVars>>

\* A transport that repeats the request once more.
fetchWithRetry(n) == n + 2

\* streamSingleChat, streamCompareChat and streamCrewChat each call fetch
\* once for a send; nothing in the transport or the panels calls it again.
fetch(n) == n + 1

\* The history of a send that was just accepted.
StartHistory ==
  /\ hist' = NoHistory /\ calls' = <<>> /\ ended' = "none"
  /\ totalsAtSubmit' = Totals
  /\ submitted' = prompt
  /\ sends' = sends + 1
  /\ requests' = fetch(requests)
  /\ UNCHANGED delivered

\* ----------------------------------------------------- SingleChatPanel.tsx

\* canSend
\* A guard that looks at the prompt only.
canSendWhileBusy == TrimNonEmpty(prompt)

canSend == TrimNonEmpty(prompt) /\ ~busy

\* submit(), up to the first await: the guard and the pre-send reset.
SingleSubmit ==
  /\ chatMode = "single"
  /\ canSend
  /\ sends < MaxSends
  /\ busy' = TRUE
  /\ response' = ""
  /\ usage' = NoUsage
  /\ promptRef' = prompt
  /\ gotServerUsage' = FALSE
  /\ accumulated' = ""
  /\ StartHistory
  /\ UNCHANGED <<decoderVars, choiceVars, crewVars, totalVars, prompt, compareVars>>

\* A loop body that puts a delta's text in front of what is there.
SingleOnEventPrepending(e, modelId, resp, acc, use, got) ==
  LET isDelta == e.type = "delta" /\ e.text # ""
      isUsage == IsUsageBearing(e)
      info == ServerUsage(e, modelId)
  IN  [response |-> IF isDelta THEN e.text \o resp ELSE resp,
       accumulated |-> IF isDelta THEN e.text \o acc ELSE acc,
       usage |-> IF isUsage THEN Some(info) ELSE use,
       gotServerUsage |-> (got \/ isUsage),
       added |-> IF isUsage THEN <<Call("single", info)>> ELSE <<>>]

\* The two ifs of the loop body, as the new (response, accumulated, usage,
\* gotServerUsage) and the addUsage call made, if any.
SingleOnEvent(e, modelId, resp, acc, use, got) ==
  LET isDelta == e.type = "delta" /\ e.text # ""
      isUsage == IsUsageBearing(e)
      info == ServerUsage(e, modelId)
  IN  [response |-> IF isDelta THEN resp \o e.text ELSE resp,
       accumulated |-> IF isDelta THEN acc \o e.text ELSE acc,
       usage |-> IF isUsage THEN Some(info) ELSE use,
       gotServerUsage |-> (got \/ isUsage),
       added |-> IF isUsage THEN <<Call("single", info)>> ELSE <<>>]

\* One iteration of `for await (const eventData of stream)`.
SingleDeliver(e) ==
  /\ chatMode = "single"
  /\ busy
  /\ delivered < MaxEvents
  /\ LET r == SingleOnEvent(e, single, response, accumulated, usage, gotServerUsage)
     IN  /\ response' = r.response
         /\ accumulated' = r.accumulated
         /\ usage' = r.usage
         /\ gotServerUsage' = r.gotServerUsage
         /\ calls' = calls \o r.added
         /\ SetTotals(addUsages(Totals, r.added))
  /\ hist' = Record(hist, chatMode, e)
  /\ delivered' = delivered + 1
  /\ UNCHANGED <<decoderVars, choiceVars, crewVars, panelVars, compareVars, ended, totalsAtSubmit, submitted, sends,
                 requests>>

\* A finally block that leaves the flag as it found it.
busyLeftSet == TRUE

\* setBusy(false), the last statement of the finally block.
busyAfterFinally == FALSE

\* The finally block: the estimated fallback, then setBusy(false).
SingleFinally ==
  LET est == ShouldEstimate(gotServerUsage, accumulated)
      info == EstimatedUsage(promptRef, accumulated, single)
  IN  /\ usage' = IF est THEN Some(info) ELSE usage
      /\ calls' = IF est THEN Append(calls, Call("single", info)) ELSE calls
      /\ SetTotals(IF est THEN addUsage(Totals, info) ELSE Totals)
      /\ busy' = busyAfterFinally

\* The stream ends (the generator returns): the loop exits into finally.
SingleEnd ==
  /\ chatMode = "single"
  /\ busy
  /\ SingleFinally
  /\ ended' = "normal"
  /\ UNCHANGED <<decoderVars, choiceVars, crewVars, prompt, promptRef, response, gotServerUsage, accumulated,
                 compareVars, hist, totalsAtSubmit, submitted, sends, delivered,
                 requests>>

\* The catch block's text: error instanceof Error ? error.message : ...
\* (everything fetch, the reader and JSON.parse throw is an Error).
SingleCatchText(resp, message) == message

\* streamSingleChat or the read loop throws: catch, then finally.
SingleFail(message) ==
  /\ chatMode = "single"
  /\ busy
  /\ response' = SingleCatchText(response, message)
  /\ SingleFinally
  /\ ended' = "thrown"
  /\ UNCHANGED <<decoderVars, choiceVars, crewVars, prompt, promptRef, gotServerUsage, accumulated,
                 compareVars, hist, totalsAtSubmit, submitted, sends, delivered,
                 requests>>

\* -------------------------------------------------------- ComparePanel.tsx

\* submit(), up to the first await: the guard and the pre-send reset.
CompareSubmit ==
  /\ chatMode = "compare"
  /\ TrimNonEmpty(prompt) /\ ~busy
  /\ sends < MaxSends
  /\ busy' = TRUE
  /\ leftOutput' = "" /\ rightOutput' = ""
  /\ leftUsage' = NoUsage /\ rightUsage' = NoUsage
  /\ promptRef' = prompt
  /\ leftAccRef' = "" /\ rightAccRef' = ""
  /\ gotLeftUsage' = FALSE /\ gotRightUsage' = FALSE
  /\ StartHistory
  /\ UNCHANGED <<decoderVars, choiceVars, crewVars, totalVars, prompt, singleVars>>

\* The state of the two sides that the loop body reads and writes.
CompareState ==
  [leftOutput |-> leftOutput, rightOutput |-> rightOutput,
   leftUsage |-> leftUsage, rightUsage |-> rightUsage,
   leftAccRef |-> leftAccRef, rightAccRef |-> rightAccRef,
   gotLeftUsage |-> gotLeftUsage, gotRightUsage |-> gotRightUsage]

\* An error text that takes the place of whatever is displayed.
OrErrorOverwriting(prev, message) == "Error: " \o message

\* setOutput((prev) => prev || `Error: ${message}`)
OrError(prev, message) == IF prev # "" THEN prev ELSE "Error: " \o message

\* The if / else-if chain on delta and error events (lines 99-115).
CompareOnText(e, c) ==
  IF e.type = "delta" /\ e.text # "" /\ e.side = "left"
  THEN [c EXCEPT !.leftAccRef = @ \o e.text, !.leftOutput = @ \o e.text]
  ELSE IF e.type = "delta" /\ e.text # "" /\ e.side = "right"
  THEN [c EXCEPT !.rightAccRef = @ \o e.text, !.rightOutput = @ \o e.text]
  ELSE IF e.type = "error"
  THEN LET message == IF e.message # "" THEN e.message ELSE "Stream failed"
       IN  IF e.side = "left"
           THEN [c EXCEPT !.leftOutput = OrError(@, message)]
           ELSE IF e.side = "right"
           THEN [c EXCEPT !.rightOutput = OrError(@, message)]
           ELSE [c EXCEPT !.leftOutput = OrError(@, message),
                          !.rightOutput = OrError(@, message)]
  ELSE c

\* Both sides priced with the left model id.
SideModelLeftOnly(side, leftId, rightId) == leftId

\* The model id a side's cost is computed with.
SideModel(side, leftId, rightId) == IF side = "left" THEN leftId ELSE rightId

\* The if on usage-bearing done/complete events (lines 117-134): the new
\* state and the addUsage call made, if any.
CompareOnUsage(e, c, leftId, rightId) ==
  IF IsUsageBearing(e) /\ e.side \in Sides
  THEN LET info == ServerUsage(e, SideModel(e.side, leftId, rightId))
       IN  [state |-> IF e.side = "left"
                      THEN [c EXCEPT !.leftUsage = Some(info), !.gotLeftUsage = TRUE]
                      ELSE [c EXCEPT !.rightUsage = Some(info), !.gotRightUsage = TRUE],
            added |-> <<Call(e.side, info)>>]
  ELSE [state |-> c, added |-> <<>>]

SetCompareState(c) ==
  /\ leftOutput' = c.leftOutput /\ rightOutput' = c.rightOutput
  /\ leftUsage' = c.leftUsage /\ rightUsage' = c.rightUsage
  /\ leftAccRef' = c.leftAccRef /\ rightAccRef' = c.rightAccRef
  /\ gotLeftUsage' = c.gotLeftUsage /\ gotRightUsage' = c.gotRightUsage

\* One iteration of `for await (const eventData of stream)`.
CompareDeliver(e) ==
  /\ chatMode = "compare"
  /\ busy
  /\ delivered < MaxEvents
  /\ LET r == CompareOnUsage(e, CompareOnText(e, CompareState), left, right)
     IN  /\ SetCompareState(r.state)
         /\ calls' = calls \o r.added
         /\ SetTotals(addUsages(Totals, r.added))
  /\ hist' = Record(hist, chatMode, e)
  /\ delivered' = delivered + 1
  /\ UNCHANGED <<decoderVars, choiceVars, crewVars, panelVars, singleVars, ended, totalsAtSubmit, submitted, sends,
                 requests>>

\* The finally block: the estimated fallback of the left side, then of the
\* right side, as the new state and the addUsage calls made.
CompareFinally(c, promptText, leftId, rightId) ==
  LET estL == ShouldEstimate(c.gotLeftUsage, c.leftAccRef)
      estR == ShouldEstimate(c.gotRightUsage, c.rightAccRef)
      infoL == EstimatedUsage(promptText, c.leftAccRef, leftId)
      infoR == EstimatedUsage(promptText, c.rightAccRef, rightId)
  IN  [state |-> [c EXCEPT !.leftUsage = IF estL THEN Some(infoL) ELSE @,
                           !.rightUsage = IF estR THEN Some(infoR) ELSE @],
       added |-> (IF estL THEN <<Call("left", infoL)>> ELSE <<>>)
                   \o (IF estR THEN <<Call("right", infoR)>> ELSE <<>>)]

\* The catch block: both outputs are set to the error's message.
CompareCatch(c, message) ==
  [c EXCEPT !.leftOutput = message, !.rightOutput = message]

\* A combined cost that shows the left side's cost alone.
combinedCostLeftOnly(l, r) == IF l = NoUsage THEN 0 ELSE l[1].cost

\* (leftUsage?.cost ?? 0) + (rightUsage?.cost ?? 0)
combinedCost(l, r) ==
  OrElse(IF l = NoUsage THEN Absent ELSE Some(l[1].cost), 0)
    + OrElse(IF r = NoUsage THEN Absent ELSE Some(r[1].cost), 0)

\* The stream ends (the generator returns): the loop exits into finally.
CompareEnd ==
  /\ chatMode = "compare"
  /\ busy
  /\ LET r == CompareFinally(CompareState, promptRef, left, right)
     IN  /\ SetCompareState(r.state)
         /\ calls' = calls \o r.added
         /\ SetTotals(addUsages(Totals, r.added))
  /\ busy' = FALSE
  /\ ended' = "normal"
  /\ UNCHANGED <<decoderVars, choiceVars, crewVars, prompt, promptRef, singleVars, hist, totalsAtSubmit,
                 submitted, sends, delivered,
                 requests>>

\* streamCompareChat or the read loop throws: catch, then finally.
CompareFail(message) ==
  /\ chatMode = "compare"
  /\ busy
  /\ LET r == CompareFinally(CompareCatch(CompareState, message), promptRef, left, right)
     IN  /\ SetCompareState(r.state)
         /\ calls' = calls \o r.added
         /\ SetTotals(addUsages(Totals, r.added))
  /\ busy' = FALSE
  /\ ended' = "thrown"
  /\ UNCHANGED <<decoderVars, choiceVars, crewVars, prompt, promptRef, singleVars, hist, totalsAtSubmit,
                 submitted, sends, delivered,
                 requests>>

\* ----------------------------------------------- appStore.ts, crew state

\* {...a, ...b}: the keys of both, b's value where both have the key.
Spread(a, b) ==
  [k \in DOMAIN a \cup DOMAIN b |-> IF k \in DOMAIN b THEN b[k] ELSE a[k]]

\* The default an entry is created from.  cost and tokens are optional
\* fields: an absent key reads as undefined, which is held as Absent.
DefaultAgentOutput ==
  [status |-> "pending", text |-> "", model |-> "", cost |-> Absent, tokens |-> Absent]

\* An update that is refused once the agents' costs exceed the default
\* budget.
updateAgentOutputCapped(outputs, agent, update) ==
  LET spent(a) == IF a \in DOMAIN outputs THEN OrElse(outputs[a].cost, 0) ELSE 0
      entry == Spread(Spread(DefaultAgentOutput,
                             IF agent \in DOMAIN outputs THEN outputs[agent]
                             ELSE [k \in {} |-> Absent]),
                      update)
  IN  IF spent("planner") + spent("coder") > DefaultCrewBudget THEN outputs
      ELSE [a \in DOMAIN outputs \cup {agent} |-> IF a = agent THEN entry ELSE outputs[a]]

\* An update whose new map holds the updated entry alone.
updateAgentOutputAlone(outputs, agent, update) ==
  LET existing == IF agent \in DOMAIN outputs THEN outputs[agent] ELSE [k \in {} |-> Absent]
  IN  [a \in {agent} |-> Spread(Spread(DefaultAgentOutput, existing), update)]

\* An update that acts on the entries there are and makes none.
updateAgentOutputExisting(outputs, agent, update) ==
  IF agent \in DOMAIN outputs
  THEN [outputs EXCEPT ![agent] = Spread(@, update)]
  ELSE outputs

\* An update that builds the entry from the default and the update alone.
updateAgentOutputFresh(outputs, agent, update) ==
  LET entry == Spread(DefaultAgentOutput, update)
  IN  [a \in DOMAIN outputs \cup {agent} |-> IF a = agent THEN entry ELSE outputs[a]]

\* updateAgentOutput(agent, update) on agentOutputs.
updateAgentOutput(outputs, agent, update) ==
  LET existing == IF agent \in DOMAIN outputs THEN outputs[agent] ELSE [k \in {} |-> Absent]
      entry == Spread(Spread(DefaultAgentOutput, existing), update)
  IN  [a \in DOMAIN outputs \cup {agent} |-> IF a = agent THEN entry ELSE outputs[a]]

\* A setter that replaces the text, as its name suggests.
setSynthesisTextReplacing(synthesis, text) == text

\* setSynthesisText(text): appends.
setSynthesisText(synthesis, text) == synthesis \o text

\* A reset that keeps the crew's total cost.
resetCrewStateKeepingTotal ==
  [agentOutputs |-> NoAgents, synthesisText |-> "", crewTotalCost |-> crewTotalCost]

\* resetCrewState()
resetCrewState ==
  [agentOutputs |-> NoAgents, synthesisText |-> "", crewTotalCost |-> 0]

\* ----------------------------------------------------------- CrewPanel.tsx

\* onChange of the task textarea, which is disabled while a crew runs.
SetTask(t) ==
  /\ chatMode = "crew"
  /\ ~isRunning
  /\ task # t
  /\ task' = t
  /\ UNCHANGED <<decoderVars, choiceVars, crewStoreVars, isRunning, error, crewHist, totalVars,
                 chatVars, ended, sends, delivered,
                 abandoned, requests>>

\* handleSubmit, up to the first await: the guard, setIsRunning(true),
\* setError(null), resetCrewState().
CrewSubmit ==
  /\ chatMode = "crew"
  /\ TrimNonEmpty(task) /\ ~isRunning
  /\ sends < MaxSends
  /\ isRunning' = TRUE
  /\ error' = Absent
  /\ agentOutputs' = resetCrewState.agentOutputs
  /\ synthesisText' = resetCrewState.synthesisText
  /\ crewTotalCost' = resetCrewState.crewTotalCost
  /\ crewHist' = NoCrewHistory
  /\ ended' = "none"
  /\ sends' = sends + 1
  /\ requests' = fetch(requests)
  /\ abandoned' = [abandoned EXCEPT !.applied = 0, !.last = Absent]
  /\ UNCHANGED <<decoderVars, choiceVars, crewBudget, task, totalVars, chatVars, delivered>>

\* event.agents?.forEach((a) => updateAgentOutput(a, {pending, "", ""}))
RECURSIVE CrewStartAll(_, _)
CrewStartAll(outputs, agents) ==
  IF agents = <<>> THEN outputs
  ELSE CrewStartAll(
         updateAgentOutput(outputs, Head(agents),
                           [status |-> "pending", text |-> "", model |-> ""]),
         Tail(agents))

\* The update object of an agent_done that carries cost and tokens whatever
\* they are.
AgentDoneUpdateReplacing(e) ==
  [status |-> "done", cost |-> e.cost, tokens |-> e.tokens]

\* The update object of the agent_done case: status, and cost and tokens only
\* when they are numbers.
AgentDoneUpdate(e) ==
  Spread(Spread([status |-> "done"],
                IF e.cost # Absent THEN [cost |-> e.cost] ELSE [k \in {} |-> Absent]),
         IF e.tokens # Absent THEN [tokens |-> e.tokens] ELSE [k \in {} |-> Absent])

\* The switch of the loop body on the store's crew state and the panel's
\* error.
CrewOnEvent(e, c) ==
  CASE e.type = "crew_start" ->
         IF e.agents = Absent THEN c
         ELSE [c EXCEPT !.agentOutputs = CrewStartAll(@, e.agents[1])]
    [] e.type = "agent_start" ->
         IF e.agent = "" THEN c
         ELSE [c EXCEPT !.agentOutputs =
                 updateAgentOutput(@, e.agent, [status |-> "running", model |-> e.model])]
    [] e.type = "agent_delta" ->
         IF e.agent = "" \/ e.text = "" THEN c
         ELSE [c EXCEPT !.agentOutputs =
                 updateAgentOutput(@, e.agent,
                   [text |-> (IF e.agent \in DOMAIN @ THEN @[e.agent].text ELSE "") \o e.text])]
    [] e.type = "agent_done" ->
         IF e.agent = "" THEN c
         ELSE [c EXCEPT !.agentOutputs = updateAgentOutput(@, e.agent, AgentDoneUpdate(e))]
    [] e.type = "crew_done" ->
         IF e.totalCost = Absent THEN c ELSE [c EXCEPT !.crewTotalCost = e.totalCost[1]]
    [] e.type = "synthesis_delta" ->
         IF e.text = "" THEN c
         ELSE [c EXCEPT !.synthesisText = setSynthesisText(@, e.text)]
    [] e.type = "error" ->
         [c EXCEPT !.error = Some(IF e.message # "" THEN e.message ELSE "Unknown error")]
    [] OTHER -> c

CrewState ==
  [agentOutputs |-> agentOutputs, synthesisText |-> synthesisText,
   crewTotalCost |-> crewTotalCost, error |-> error]

\* A loop that books an agent's reported tokens and cost on the session.
CrewUsageCallsBooked(e) ==
  IF e.type = "agent_done" /\ e.agent # "" /\ e.tokens # Absent
  THEN <<Call(e.agent, UsageInfo(0, e.tokens[1], OrElse(e.cost, 0), FALSE))>>
  ELSE <<>>

\* The addUsage calls of the loop body: the panel does not take addUsage
\* from the store and no case of the switch accounts anything.
CrewUsageCalls(e) == <<>>

\* One iteration of `for await (const event of stream)`.
CrewDeliver(e) ==
  /\ chatMode = "crew"
  /\ isRunning
  /\ delivered < MaxCrewEvents
  /\ delivered' = delivered + 1
  /\ LET c == CrewOnEvent(e, CrewState)
     IN  /\ agentOutputs' = c.agentOutputs
         /\ synthesisText' = c.synthesisText
         /\ crewTotalCost' = c.crewTotalCost
         /\ error' = c.error
  /\ crewHist' =
       [a \in Agents |->
          LET done == e.type = "agent_done" /\ e.agent = a
          IN  [dones |-> crewHist[a].dones + (IF done THEN 1 ELSE 0),
               last |-> IF done THEN Some(e) ELSE crewHist[a].last,
               script |-> ScriptStep(crewHist[a].script, e, a)]]
  /\ SetTotals(addUsages(Totals, CrewUsageCalls(e)))
  /\ UNCHANGED <<decoderVars, choiceVars, crewBudget, task, isRunning, chatVars, ended, sends,
                 abandoned, requests>>

\* The stream ends: finally, setIsRunning(false).
CrewEnd ==
  /\ chatMode = "crew"
  /\ isRunning
  /\ isRunning' = FALSE
  /\ ended' = "normal"
  /\ UNCHANGED <<decoderVars, choiceVars, crewStoreVars, task, error, crewHist, totalVars, chatVars,
                 sends, delivered,
                 abandoned, requests>>

\* A catch block that marks the agents still running as failed.
catchAgentOutputsFailing(outputs) ==
  [a \in DOMAIN outputs |->
     IF outputs[a].status = "running" THEN [outputs[a] EXCEPT !.status = "failed"]
     ELSE outputs[a]]

\* The agent records after the catch block, which calls setError only.
catchAgentOutputs(outputs) == outputs

\* streamCrewChat or the read loop throws: catch (setError), then finally.
CrewFail(message) ==
  /\ chatMode = "crew"
  /\ isRunning
  /\ error' = Some(message)
  /\ isRunning' = FALSE
  /\ ended' = "thrown"
  /\ agentOutputs' = catchAgentOutputs(agentOutputs)
  /\ UNCHANGED <<decoderVars, choiceVars, synthesisText, crewTotalCost, crewBudget, task, crewHist, totalVars, chatVars,
                 sends, delivered,
                 abandoned, requests>>

\* ------------------------------------------------------- CrewDashboard.tsx

\* agents.reduce((sum, [, data]) => sum + (data.cost ?? 0), 0)
RECURSIVE SumCosts(_, _)
SumCosts(outputs, names) ==
  IF names = {} THEN 0
  ELSE LET a == CHOOSE x \in names : TRUE
       IN  OrElse(outputs[a].cost, 0) + SumCosts(outputs, names \ {a})

\* totalCost: crewTotalCost when it is positive, else the sum of the agents'
\* costs.
dashboardTotalCost(outputs, crewTotal) ==
  IF crewTotal > 0 THEN crewTotal ELSE SumCosts(outputs, DOMAIN outputs)

\* ----------------------------------------------------------------- Next

Next ==
  \/ \E p \in Prompts : SetPrompt(p)
  \/ SingleSubmit
  \/ \E e \in SingleEvents : SingleDeliver(e)
  \/ SingleEnd
  \/ \E m \in ThrownMessages : SingleFail(m)
  \/ CompareSubmit
  \/ \E e \in CompareEvents : CompareDeliver(e)
  \/ CompareEnd
  \/ \E m \in ThrownMessages : CompareFail(m)

Spec == Init /\ [][Next]_vars

\* A session in crew mode.
InitCrew == InitSession({"crew"}) /\ DecoderIdle

NextCrew ==
  \/ \E t \in Tasks : SetTask(t)
  \/ CrewSubmit
  \/ \E e \in CrewEvents : CrewDeliver(e)
  \/ CrewEnd
  \/ \E m \in ThrownMessages : CrewFail(m)

SpecCrew == InitCrew /\ [][NextCrew]_vars

\* ------------------------------------------------------------ CostBadge.tsx

\* The Reset button, rendered unless the three totals are all zero:
\* resetUsage().
ResetUsage ==
  /\ ~(sessionTokensIn = 0 /\ sessionTokensOut = 0 /\ sessionCost = 0)
  /\ sessionTokensIn' = 0 /\ sessionTokensOut' = 0 /\ sessionCost' = 0
  /\ UNCHANGED <<decoderVars, choiceVars, crewVars, panelVars, singleVars, compareVars,
                 historyVars>>

\* A session in any chat mode with the default model choices, and the cost
\* badge.
InitApp ==
  /\ InitWith({"single", "compare", "crew"}, {DefaultModelId},
              {<<DefaultModelId, DefaultRightModelId>>})
  /\ DecoderIdle

NextApp ==
  \/ Next
  \/ NextCrew
  \/ ResetUsage

SpecApp == InitApp /\ [][NextApp]_vars

\* ------------------------------------------------- claims on the session

\* C14: the session totals never decrease, in any chat mode, except by the
\* Reset button, which sets all three to zero.
C14_TotalsMonotone ==
  [][/\ ResetUsage => (sessionTokensIn' = 0 /\ sessionTokensOut' = 0 /\ sessionCost' = 0)
     /\ ~ResetUsage =>
          /\ sessionTokensIn' >= sessionTokensIn
          /\ sessionTokensOut' >= sessionTokensOut
          /\ sessionCost' >= sessionCost]_vars

\* C14 witness: during a second send the totals were reset and have been
\* added to since.
C14_Witness ==
  /\ sends >= 2 /\ calls # <<>>
  /\ sessionCost > 0
  /\ Totals # addUsages(totalsAtSubmit, calls)

\* C15: an accepted send resets, before any event of the new stream is
\* handled, every buffer of the units about to stream: the response and the
\* usage in single mode; both outputs, both accumulators and both usages in
\* compare mode; agentOutputs, synthesisText, crewTotalCost and the error in
\* crew mode.
C15_SendResetsBuffers ==
  [][/\ SingleSubmit => (response' = "" /\ usage' = NoUsage /\ accumulated' = "")
     /\ CompareSubmit =>
          /\ leftOutput' = "" /\ rightOutput' = ""
          /\ leftAccRef' = "" /\ rightAccRef' = ""
          /\ leftUsage' = NoUsage /\ rightUsage' = NoUsage
     /\ CrewSubmit =>
          /\ agentOutputs' = NoAgents /\ synthesisText' = ""
          /\ crewTotalCost' = 0 /\ error' = Absent]_vars

\* C15 witness: a second send has been accepted in single mode, after a first
\* one that left a usage record, and none of its events has been handled yet.
C15_Witness ==
  /\ chatMode = "single" /\ sends = 2 /\ busy
  /\ hist = NoHistory /\ totalsAtSubmit.cost > 0
  /\ response = "" /\ usage = NoUsage

\* ------------------------------------------------- claims on the crew panel

\* C10: agent_done is a field-level merge and is idempotent.  Handling an
\* agent_done event for an agent (the step that raises the count of its
\* agent_done events) marks its record done, stores the cost and
\* the tokens the event carries, leaves the stored value of whichever of the
\* two the event lacks, leaves text and model alone, and handling the same
\* event once more would change nothing.
C10_AgentDoneMergeIdempotent ==
  [][\A agent \in Agents :
       (isRunning /\ crewHist'[agent].dones = crewHist[agent].dones + 1) =>
         LET e == crewHist'[agent].last[1]
             known == e.agent \in DOMAIN agentOutputs
             before == agentOutputs[e.agent]
             after == agentOutputs'[e.agent]
         IN  /\ e \in AgentDoneEvents /\ e.agent = agent
             /\ after.status = "done"
             /\ after.cost = IF e.cost # Absent THEN e.cost
                             ELSE IF known THEN before.cost ELSE Absent
             /\ after.tokens = IF e.tokens # Absent THEN e.tokens
                               ELSE IF known THEN before.tokens ELSE Absent
             /\ after.text = IF known THEN before.text ELSE ""
             /\ after.model = IF known THEN before.model ELSE ""
             /\ \A a \in DOMAIN agentOutputs \ {e.agent} :
                  agentOutputs'[a] = agentOutputs[a]
             /\ CrewOnEvent(e, CrewState').agentOutputs = agentOutputs'
    ]_vars

\* C10 witness: an agent whose tokens an earlier agent_done set to 40 has
\* since handled an agent_done with cost 5 and no tokens, at least three
\* agent_done events in all, and its record still holds tokens 40 with cost 5.
C10_Witness ==
  \E a \in Agents :
    /\ crewHist[a].dones >= 3
    /\ crewHist[a].last # Absent
    /\ crewHist[a].last[1].cost = Some(5)
    /\ crewHist[a].last[1].tokens = Absent
    /\ a \in DOMAIN agentOutputs
    /\ agentOutputs[a].status = "done"
    /\ agentOutputs[a].cost = Some(5)
    /\ agentOutputs[a].tokens = Some(40)

C19_CrewErrorAborts ==
  [][\A e \in CrewEvents :
       (error # Absent /\ CrewDeliver(e)) =>
         UNCHANGED <<agentOutputs, synthesisText, crewTotalCost, error>>]_vars

\* C11: once a crew_done event with a numeric totalCost has been handled, the
\* total cost the dashboard shows is that totalCost, whatever its value and
\* whatever the agents' costs add up to.
C11_DashboardShowsCrewDoneTotal ==
  [][\A e \in CrewEvents :
       (e.type = "crew_done" /\ e.totalCost # Absent /\ CrewDeliver(e)) =>
         dashboardTotalCost(agentOutputs', crewTotalCost') = e.totalCost[1]]_vars

\* C12: within one crew stream an agent's text is append-only.  Whatever
\* event is handled, crew_start included, every agent that had a record still
\* has one and its text begins with the text it had.
C12_AgentTextAppendOnly ==
  [][\A e \in CrewEvents :
       CrewDeliver(e) =>
         \A a \in DOMAIN agentOutputs :
           /\ a \in DOMAIN agentOutputs'
           /\ Len(agentOutputs[a].text) <= Len(agentOutputs'[a].text)
           /\ SubSeq(agentOutputs'[a].text, 1, Len(agentOutputs[a].text))
                = agentOutputs[a].text]_vars

\* ------------------------------------------- claims on the chat panels

\* The units of the mounted panel, and each unit's state.
ActiveUnits == IF chatMode = "single" THEN {"single"} ELSE Sides
UnitUsage(u) == CASE u = "single" -> usage [] u = "left" -> leftUsage [] u = "right" -> rightUsage
UnitOutput(u) ==
  CASE u = "single" -> response [] u = "left" -> leftOutput [] u = "right" -> rightOutput
UnitAcc(u) ==
  CASE u = "single" -> accumulated [] u = "left" -> leftAccRef [] u = "right" -> rightAccRef
UnitModelId(u) == CASE u = "single" -> single [] u = "left" -> left [] u = "right" -> right
CallsOf(u) == SelectSeq(calls, LAMBDA c : c.unit = u)
CeilDiv(n, d) == IF n % d = 0 THEN n \div d ELSE (n \div d) + 1
\* (tokensIn*input + tokensOut*output)/1e6 at the rate of model id m.
CostAt(tokensIn, tokensOut, m) ==
  LET rate == IF m \in DOMAIN PRICING THEN PRICING[m] ELSE FALLBACK_PRICING_RATE
  IN  tokensIn * rate.input + tokensOut * rate.output
\* The estimated record of unit u for the prompt as submitted and the text
\* the stream delivered for u.
ExpectedEstimate(u) ==
  LET tokensIn == CeilDiv(Len(submitted), 4)
      tokensOut == CeilDiv(Len(hist[u].streamed), 4)
  IN  [tokensIn |-> tokensIn, tokensOut |-> tokensOut,
       cost |-> CostAt(tokensIn, tokensOut, UnitModelId(u)), estimated |-> TRUE]

\* C1: in single mode addUsage is called at most once per send, however the
\* stream's events are sequenced and however it ends, so the session totals
\* grow by at most one UsageInfo per send.
C1_AtMostOneAddUsage ==
  chatMode = "single" =>
    /\ Len(calls) <= 1
    /\ \/ Totals = totalsAtSubmit
       \/ \E c \in {calls[i] : i \in DOMAIN calls} : Totals = addUsage(totalsAtSubmit, c.info)

\* C2: for each unit, once a usage-bearing done/complete event has set the
\* unit's usage, no estimated fallback is made for it: its usage record stays
\* server-derived and its addUsage calls are never both server-derived and
\* estimated within one send.
C2_NoDoubleCounting ==
  \A u \in ActiveUnits :
    /\ ~ \E i, j \in DOMAIN calls :
           /\ calls[i].unit = u /\ calls[j].unit = u
           /\ ~calls[i].info.estimated /\ calls[j].info.estimated
    /\ hist[u].usageEvents > 0 =>
         /\ UnitUsage(u) # NoUsage
         /\ ~UnitUsage(u)[1].estimated
         /\ \A i \in DOMAIN calls : calls[i].unit = u => ~calls[i].info.estimated

\* C2 witness: a send has ended for a unit that streamed text and also
\* received a usage-bearing terminal event.
C2_Witness ==
  /\ ended # "none"
  /\ \E u \in ActiveUnits : hist[u].usageEvents > 0 /\ hist[u].streamed # ""

\* C4: a unit that received exactly one usage-bearing done/complete event has
\* a UsageInfo with estimated = false, the reported token counts and the cost
\* (tokensIn*input + tokensOut*output)/1e6 at the rate of its own model id.
C4_ServerUsageExact ==
  \A u \in ActiveUnits :
    hist[u].usageEvents = 1 =>
      /\ UnitUsage(u) # NoUsage
      /\ LET info == UnitUsage(u)[1]
             reported == hist[u].reported[1]
         IN  /\ info.estimated = FALSE
             /\ reported.prompt_tokens # Absent => info.tokensIn = reported.prompt_tokens[1]
             /\ reported.completion_tokens # Absent =>
                  info.tokensOut = reported.completion_tokens[1]
             /\ info.cost = CostAt(info.tokensIn, info.tokensOut, UnitModelId(u))

\* C4 witness: in compare mode with priced models, the right side ended a
\* stream normally after exactly one usage-bearing event for it.
C4_Witness ==
  /\ chatMode = "compare" /\ ended = "normal"
  /\ right \in DOMAIN PRICING /\ left \in DOMAIN PRICING
  /\ hist["right"].usageEvents = 1 /\ hist["right"].streamed # ""
  /\ rightUsage # NoUsage

\* C5: a unit whose stream delivered non-empty delta text and no usage-bearing
\* terminal event has, once the stream ended, the estimated UsageInfo with
\* tokensIn = ceil(len(prompt as submitted)/4) and tokensOut =
\* ceil(len(streamed text)/4), and exactly that record was added to the
\* session totals for it.
C5_EstimatedFallback ==
  /\ Totals = addUsages(totalsAtSubmit, calls)
  /\ \A u \in ActiveUnits :
       (ended # "none" /\ hist[u].streamed # "" /\ hist[u].usageEvents = 0) =>
         /\ UnitUsage(u) = Some(ExpectedEstimate(u))
         /\ CallsOf(u) = <<Call(u, ExpectedEstimate(u))>>

\* C5 witness: a stream ended by a thrown failure after text streamed, with the
\* prompt edited since it was submitted and a length that is no multiple of 4.
C5_Witness ==
  /\ ended = "thrown" /\ prompt # submitted
  /\ \E u \in ActiveUnits :
       /\ hist[u].streamed # "" /\ hist[u].usageEvents = 0
       /\ Len(hist[u].streamed) % 4 # 0

\* C6: in single mode, when the stream fails by a thrown error after
\* non-empty text streamed and before any terminal event, the displayed
\* response is still the streamed text and one estimated usage record
\* computed from it is produced.
C6_PartialTextKept ==
  (chatMode = "single" /\ ended = "thrown"
     /\ hist["single"].streamed # "" /\ ~hist["single"].terminal) =>
    /\ response = hist["single"].streamed
    /\ usage = Some(ExpectedEstimate("single"))
    /\ calls = <<Call("single", ExpectedEstimate("single"))>>

\* C16: in single mode an error event that arrives when no text has streamed
\* replaces the displayed response with the error's message, and one that
\* arrives after text has streamed leaves the displayed text as it is.
C16_SingleErrorEventShown ==
  [][\A e \in SingleEvents :
       (e.type = "error" /\ e.message # "" /\ SingleDeliver(e)) =>
         response' = IF accumulated = "" THEN e.message ELSE response]_vars

\* C17: in single mode a stream that delivered an error event (and no
\* usage-bearing event) ends with no UsageInfo set and no addUsage call,
\* whatever deltas came before the error.
C17_SingleErrorNoAccounting ==
  (chatMode = "single" /\ ended # "none"
     /\ hist["single"].errored /\ hist["single"].usageEvents = 0) =>
    /\ usage = NoUsage
    /\ calls = <<>>
    /\ Totals = totalsAtSubmit

\* C18: in compare mode, when the stream fails by a thrown error, each side on
\* which text had streamed still shows that text, and each side with
\* non-empty accumulated text and no server usage has exactly one estimated
\* usage record.
C18_ComparePartialTextKept ==
  (chatMode = "compare" /\ ended = "thrown") =>
    \A u \in Sides :
      hist[u].streamed # "" =>
        /\ UnitOutput(u) = hist[u].streamed
        /\ hist[u].usageEvents = 0 =>
             /\ UnitUsage(u) = Some(ExpectedEstimate(u))
             /\ CallsOf(u) = <<Call(u, ExpectedEstimate(u))>>

\* The accounting half of C18 alone.
C18_CompareFallbackOnFailure ==
  (chatMode = "compare" /\ ended = "thrown") =>
    \A u \in Sides :
      (hist[u].streamed # "" /\ hist[u].usageEvents = 0) =>
        /\ UnitUsage(u) = Some(ExpectedEstimate(u))
        /\ CallsOf(u) = <<Call(u, ExpectedEstimate(u))>>

\* C7: in compare mode, after a stream whose side-tagged events all carry
\* side left has ended normally, the right side's output, accumulator and
\* usage are as the pre-send reset left them.
C7_LeftOnlyKeepsRight ==
  (chatMode = "compare" /\ ended = "normal" /\ ~hist["right"].events) =>
    /\ rightOutput = "" /\ rightAccRef = "" /\ rightUsage = NoUsage

\* The same with every delta, done, complete and error event tagged left (no
\* untagged one either).
C7_AllTaggedLeftKeepsRight ==
  (chatMode = "compare" /\ ended = "normal"
     /\ ~hist["right"].events /\ ~hist[NoSide].events) =>
    /\ rightOutput = "" /\ rightAccRef = "" /\ rightUsage = NoUsage

\* C8: in compare mode a delta, done, complete or error event without a side
\* tag changes neither side's output, accumulator nor usage.
C8_UntaggedIgnored ==
  [][\A e \in CompareEvents :
       (e.type # "start" /\ e.side = NoSide /\ CompareDeliver(e)) =>
         UNCHANGED compareVars]_vars

\* C9: once a terminal event has been processed for a unit, a later event of
\* the same stream for that unit changes neither the unit's displayed text nor
\* its usage record nor the session totals.
C9_AfterTerminalIgnored ==
  [][/\ \A e \in SingleEvents :
          (hist["single"].terminal /\ SingleDeliver(e)) =>
            UNCHANGED <<response, usage, totalVars>>
     /\ \A e \in CompareEvents :
          (e.side \in Sides /\ hist[e.side].terminal /\ CompareDeliver(e)) =>
            /\ UnitOutput(e.side)' = UnitOutput(e.side)
            /\ UnitUsage(e.side)' = UnitUsage(e.side)
            /\ UNCHANGED totalVars]_vars

\* --------------------------------------- api/client.ts, the stream decoder

\* The characters of a response body.  The bodies modelled are ASCII, for
\* which TextDecoder.decode(value, {stream: true}) yields one character per
\* byte, whatever the chunking.
LF == "\n"
Marker == <<"d", "a", "t", "a", ":">>
Whitespace == {" ", LF}
Digits == {"1", "2"}

Last(s) == s[Len(s)]
Front(s) == SubSeq(s, 1, Len(s) - 1)

\* text.split("\n\n"): the segments between the leftmost non-overlapping
\* occurrences of the separator, scanning from position i with segment cur
\* open.
RECURSIVE SplitFrom(_, _, _)
SplitFrom(text, i, cur) ==
  IF i > Len(text) THEN <<cur>>
  ELSE IF i < Len(text) /\ text[i] = LF /\ text[i + 1] = LF
       THEN <<cur>> \o SplitFrom(text, i + 2, <<>>)
       ELSE SplitFrom(text, i + 1, Append(cur, text[i]))

Split(text) == SplitFrom(text, 1, <<>>)

\* A test that takes every segment for a data segment.
StartsWithAnything(text, prefix) == TRUE

\* event.startsWith("data:")
StartsWith(text, prefix) ==
  Len(text) >= Len(prefix) /\ SubSeq(text, 1, Len(prefix)) = prefix

\* event.slice(5)
Slice(text, n) == SubSeq(text, n + 1, Len(text))

RECURSIVE TrimStart(_)
TrimStart(text) ==
  IF text # <<>> /\ Head(text) \in Whitespace THEN TrimStart(Tail(text)) ELSE text

RECURSIVE TrimEnd(_)
TrimEnd(text) ==
  IF text # <<>> /\ Last(text) \in Whitespace THEN TrimEnd(Front(text)) ELSE text

\* text.trim()
Trim(text) == TrimEnd(TrimStart(text))

\* JSON.parse on the characters modelled: a trimmed text is JSON exactly when
\* it is a run of digits, the number it denotes; everything else is a
\* SyntaxError.
JsonValid(text) == text # <<>> /\ \A i \in DOMAIN text : text[i] \in Digits

DigitValue(c) == IF c = "1" THEN 1 ELSE 2

RECURSIVE JsonParse(_)
JsonParse(text) ==
  IF text = <<>> THEN 0 ELSE 10 * JsonParse(Front(text)) + DigitValue(Last(text))

\* A loop that passes over a payload that is not JSON and goes on.
RECURSIVE FramesSkipping(_)
FramesSkipping(events) ==
  IF events = <<>> THEN [yielded |-> <<>>, thrown |-> FALSE]
  ELSE LET event == Head(events)
           json == Trim(Slice(event, Len(Marker)))
           rest == FramesSkipping(Tail(events))
       IN  IF StartsWith(event, Marker) /\ JsonValid(json)
           THEN [yielded |-> <<JsonParse(json)>> \o rest.yielded, thrown |-> FALSE]
           ELSE rest

\* The for loop over the complete segments: the events yielded, and whether
\* JSON.parse threw (which ends the generator).
RECURSIVE Frames(_)
Frames(events) ==
  IF events = <<>> THEN [yielded |-> <<>>, thrown |-> FALSE]
  ELSE LET event == Head(events)
           json == Trim(Slice(event, Len(Marker)))
       IN  IF ~StartsWith(event, Marker) THEN Frames(Tail(events))
           ELSE IF json = <<>> THEN Frames(Tail(events))
           ELSE IF ~JsonValid(json) THEN [yielded |-> <<>>, thrown |-> TRUE]
           ELSE LET rest == Frames(Tail(events))
                IN  [yielded |-> <<JsonParse(json)>> \o rest.yielded,
                     thrown |-> rest.thrown]

\* The buffer kept for the next chunk, with nothing kept.
RetainedNothing(events) == <<>>

\* buffer = events.pop() || ""
Retained(events) == Last(events)

\* The body of the while loop for one chunk: the buffer kept and the events
\* yielded from the complete segments.
DecodeChunk(buf, chunk) ==
  LET events == Split(buf \o chunk)
  IN  [buffer |-> Retained(events), frames |-> Frames(Front(events))]

\* reader.read() resolves with the next n characters of the body.
DecoderRead(n) ==
  /\ reader = "reading"
  /\ n \in 1..(Len(body) - consumed)
  /\ LET r == DecodeChunk(buffer, SubSeq(body, consumed + 1, consumed + n))
         at == consumed + n
     IN  /\ buffer' = r.buffer
         /\ yielded' = yielded \o r.frames.yielded
         /\ reader' = IF r.frames.thrown THEN "thrown" ELSE "reading"
         /\ consumed' = at
         /\ cutInSeparator' =
              (cutInSeparator \/ (at < Len(body) /\ body[at] = LF /\ body[at + 1] = LF))
         /\ cutInFrame' =
              (cutInFrame \/ (at < Len(body) /\ body[at] # LF /\ body[at + 1] # LF))
  /\ UNCHANGED body

\* A chunk read by a decoder whose events nobody consumes.
ReadChunk(n) == DecoderRead(n) /\ UNCHANGED sessionVars

\* A generator that treats what is left in the buffer as a last segment.
FlushedAsSegment(buf) == Frames(<<buf>>).yielded

\* if (done) break: the loop is left without another look at the buffer, so
\* what it holds yields nothing.
Flushed(buf) == <<>>

\* reader.read() resolves with done: the generator returns, the buffer is
\* dropped.
DecoderDone ==
  /\ reader = "reading"
  /\ consumed = Len(body)
  /\ reader' = "done"
  /\ yielded' = yielded \o Flushed(buffer)
  /\ UNCHANGED <<body, consumed, buffer, cutInSeparator, cutInFrame>>

ReadDone == DecoderDone /\ UNCHANGED sessionVars

\* The blocks and line breaks response bodies are made of.
Pieces ==
  { <<LF>>, <<LF, LF>>,
    Marker \o <<"1">>,
    Marker \o <<" ">>,
    <<"2">>,
    <<"x">> }

RECURSIVE Flatten(_)
Flatten(ps) == IF ps = <<>> THEN <<>> ELSE Head(ps) \o Flatten(Tail(ps))

Bodies == {Flatten(ps) : ps \in UNION {[1..n -> Pieces] : n \in 0..MaxPieces}}

\* A response body about to be read by streamFromResponse.
InitDecoder ==
  /\ InitSession({"single"})
  /\ body \in Bodies
  /\ consumed = 0 /\ buffer = <<>> /\ yielded = <<>>
  /\ reader = "reading" /\ cutInSeparator = FALSE /\ cutInFrame = FALSE

NextDecoder ==
  \/ \E n \in 1..(MaxPieces * (Len(Marker) + 2)) : ReadChunk(n)
  \/ ReadDone

SpecDecoder == InitDecoder /\ [][NextDecoder]_vars

\* ------------------------------------------------- claims on the decoder

\* C3: the events the decoder yields, and whether it ends by a parse error,
\* are the same whether the body arrives as one chunk or split at arbitrary
\* positions into many: what has been yielded is always a prefix of the
\* one-chunk result and equals it once the decoder has stopped.
C3_ChunkIndependence ==
  LET whole == DecodeChunk(<<>>, body).frames
  IN  /\ Len(yielded) <= Len(whole.yielded)
      /\ yielded = SubSeq(whole.yielded, 1, Len(yielded))
      /\ reader \in {"done", "thrown"} =>
           /\ yielded = whole.yielded
           /\ (reader = "thrown") = whole.thrown

\* C3 witness: a body of two events was read to its end in chunks, one ending
\* between the two line breaks of a separator and one inside a block.
C3_Witness ==
  /\ reader = "done"
  /\ Len(yielded) >= 2
  /\ cutInSeparator /\ cutInFrame

\* ------------------------- SingleChatPanel.tsx reading a response body

\* What the payloads modelled stand for: 1 is a delta, 2 a done with usage,
\* every other number an event of a type the panel has no branch for.
EventOf(v) ==
  CASE v = 1 -> Ev("delta", "abc", NoSide, Absent, "")
    [] v = 2 -> Ev("done", "", NoSide,
                   Some([prompt_tokens |-> Some(10), completion_tokens |-> Some(5)]), "")
    [] OTHER -> Ev("start", "", NoSide, Absent, "")

\* The message of the SyntaxError JSON.parse throws.
ParseErrorMessage == "Unexpected token"

\* The body of a response whose frames carry the payloads ps.
RECURSIVE BodyOf(_)
BodyOf(ps) ==
  IF ps = <<>> THEN <<>> ELSE Marker \o <<" ">> \o Head(ps) \o <<LF, LF>> \o BodyOf(Tail(ps))

\* The payload lists of the responses the server sends: valid frames, and
\* frames with a structurally invalid payload in every position.
Scripts ==
  { <<>>,
    << <<"1">>, <<"2">> >>,
    << <<"1">>, <<"1">> >>,
    << <<"x">>, <<"2">> >>,
    << <<"1">>, <<"x">>, <<"1">> >>,
    << <<"2">>, <<"1", "x">> >>,
    << <<"1">>, <<"2">>, <<"x">> >> }

StreamBodies == {BodyOf(ps) : ps \in Scripts}

\* The loop body over the events one chunk yields, in order.
RECURSIVE SingleHandleAll(_, _, _)
SingleHandleAll(events, modelId, st) ==
  IF events = <<>> THEN st
  ELSE LET r == SingleOnEvent(Head(events), modelId, st.response, st.accumulated,
                              st.usage, st.gotServerUsage)
       IN  SingleHandleAll(Tail(events), modelId,
             [r EXCEPT !.added = st.added \o r.added])

RECURSIVE RecordAll(_, _, _)
RecordAll(h, mode, events) ==
  IF events = <<>> THEN h ELSE RecordAll(Record(h, mode, Head(events)), mode, Tail(events))

\* await streamSingleChat(...) resolves: the response is 2xx and its body is
\* handed to streamFromResponse.
ResponseArrives(b) ==
  /\ chatMode = "single"
  /\ busy /\ reader # "reading"
  /\ body' = b /\ consumed' = 0 /\ buffer' = <<>> /\ yielded' = <<>>
  /\ reader' = "reading" /\ cutInSeparator' = FALSE /\ cutInFrame' = FALSE
  /\ UNCHANGED sessionVars

\* One reader.read() of the stream the panel iterates: the decoder takes the
\* chunk and the loop body handles each event it yields; when JSON.parse
\* throws, the catch and finally blocks run.
StreamChunk(n) ==
  /\ chatMode = "single"
  /\ busy
  /\ DecoderRead(n)
  /\ LET r == DecodeChunk(buffer, SubSeq(body, consumed + 1, consumed + n))
         events == [i \in DOMAIN r.frames.yielded |-> EventOf(r.frames.yielded[i])]
         st == SingleHandleAll(events, single,
                 [response |-> response, accumulated |-> accumulated, usage |-> usage,
                  gotServerUsage |-> gotServerUsage, added |-> <<>>])
         est == r.frames.thrown /\ ShouldEstimate(st.gotServerUsage, st.accumulated)
         info == EstimatedUsage(promptRef, st.accumulated, single)
         added == st.added \o (IF est THEN <<Call("single", info)>> ELSE <<>>)
     IN  /\ response' = IF r.frames.thrown
                        THEN SingleCatchText(st.response, ParseErrorMessage)
                        ELSE st.response
         /\ accumulated' = st.accumulated
         /\ gotServerUsage' = st.gotServerUsage
         /\ usage' = IF est THEN Some(info) ELSE st.usage
         /\ calls' = calls \o added
         /\ SetTotals(addUsages(Totals, added))
         /\ busy' = ~r.frames.thrown
         /\ ended' = IF r.frames.thrown THEN "thrown" ELSE ended
         /\ hist' = RecordAll(hist, chatMode, events)
         /\ delivered' = delivered + Len(events)
  /\ UNCHANGED <<choiceVars, crewVars, prompt, promptRef, compareVars, totalsAtSubmit,
                 submitted, sends,
                 requests>>

\* reader.read() resolves with done: the generator returns and the loop exits
\* into finally.
StreamDone ==
  /\ chatMode = "single"
  /\ busy
  /\ DecoderDone
  /\ SingleFinally
  /\ ended' = "normal"
  /\ UNCHANGED <<choiceVars, crewVars, prompt, promptRef, response, gotServerUsage,
                 accumulated, compareVars, hist, totalsAtSubmit, submitted, sends, delivered,
                 requests>>

\* reader.read() rejects (the connection drops): catch, then finally.
StreamAbort(message) ==
  /\ chatMode = "single"
  /\ busy
  /\ reader = "reading"
  /\ reader' = "failed"
  /\ response' = SingleCatchText(response, message)
  /\ SingleFinally
  /\ ended' = "thrown"
  /\ UNCHANGED <<body, consumed, buffer, yielded, cutInSeparator, cutInFrame,
                 choiceVars, crewVars, prompt, promptRef, gotServerUsage, accumulated,
                 compareVars, hist, totalsAtSubmit, submitted, sends, delivered,
                 requests>>

\* A single-mode session whose responses are read by streamFromResponse.
InitStream ==
  /\ InitWith({"single"}, {DefaultModelId}, {<<DefaultModelId, DefaultRightModelId>>})
  /\ DecoderIdle

NextStream ==
  \/ \E p \in Prompts : SetPrompt(p)
  \/ SingleSubmit
  \/ \E b \in StreamBodies : ResponseArrives(b)
  \/ \E n \in 1..(3 * (Len(Marker) + 5)) : StreamChunk(n)
  \/ StreamDone
  \/ StreamAbort("Failed to fetch")

SpecStream == InitStream /\ [][NextStream]_vars

\* ------------------------------------------ claims on reading a response

\* The payloads of the body being read, those before the first one that is
\* not JSON, and what the panel is due for them.
ScriptOf(b) == CHOOSE ps \in Scripts : BodyOf(ps) = b
ValidPayload(payload) == payload \in {<<"1">>, <<"2">>}
HasInvalid(ps) == \E i \in DOMAIN ps : ~ValidPayload(ps[i])
GoodPrefix(ps) ==
  LET bad == {i \in DOMAIN ps : ~ValidPayload(ps[i])}
  IN  IF bad = {} THEN ps
      ELSE SubSeq(ps, 1, (CHOOSE i \in bad : \A j \in bad : i <= j) - 1)
RECURSIVE DeltaText(_)
DeltaText(ps) ==
  IF ps = <<>> THEN ""
  ELSE (IF Head(ps) = <<"1">> THEN "abc" ELSE "") \o DeltaText(Tail(ps))

\* C20: a structurally invalid payload makes the decoder throw at that frame:
\* the events yielded are exactly those of the frames before it, and a body
\* is read to its end only if it holds no such payload.  The panel then shows
\* the parse error alone, is no longer busy, has handled the deltas before
\* the bad frame only, has totals equal to those at the send plus the usage
\* events handled before the failure or else one fallback record, and takes
\* a new send as soon as the prompt is not blank.
C20_ParseErrorFailsStreamOnly ==
  LET ps == ScriptOf(body)
      good == GoodPrefix(ps)
      server == SelectSeq(calls, LAMBDA c : ~c.info.estimated)
      fallback == SelectSeq(calls, LAMBDA c : c.info.estimated)
  IN  /\ reader = "done" => (~HasInvalid(ps) /\ Len(yielded) = Len(ps))
      /\ reader = "thrown" =>
           /\ HasInvalid(ps)
           /\ Len(yielded) = Len(good)
           /\ \A i \in DOMAIN yielded : yielded[i] = (IF good[i] = <<"1">> THEN 1 ELSE 2)
           /\ ~busy =>
                /\ ended = "thrown"
                /\ response = ParseErrorMessage
                /\ hist["single"].streamed = DeltaText(good)
                /\ accumulated = DeltaText(good)
                /\ Totals = addUsages(totalsAtSubmit, calls)
                /\ Len(server) = Len(SelectSeq(good, LAMBDA payload : payload = <<"2">>))
                /\ Len(fallback) <= 1
                /\ Len(fallback) = 1 => (Len(server) = 0 /\ DeltaText(good) # "")
                /\ canSend <=> TrimNonEmpty(prompt)

\* C20 witness: a second send has been accepted after a stream that streamed
\* text, hit a payload that is not JSON with a frame still to come, and was
\* read in chunks that cut a frame.
C20_Witness ==
  /\ sends = 2 /\ busy
  /\ reader = "thrown" /\ Len(yielded) >= 1
  /\ consumed < Len(body) /\ cutInFrame
  /\ sessionCost > 0

\* ------------------------------------------------------------------------
\* The two sides of a compare send
\* ------------------------------------------------------------------------

\* What a side's usage record is worth in the combined cost.
SideCost(u) == IF UnitUsage(u) = NoUsage THEN 0 ELSE UnitUsage(u)[1].cost

\* C28: in compare mode each side settles by itself.  Once the send has
\* ended, a side's usage record is an estimate exactly when no usage-bearing
\* done or complete event tagged with that side was delivered and text
\* tagged with that side was, whatever the other side received; and the
\* combined cost shown is at every moment the sum of the two sides' usage
\* costs, a side without a usage record counting 0.
C28_SidesSettleIndependently ==
  chatMode = "compare" =>
    /\ combinedCost(leftUsage, rightUsage) = SideCost("left") + SideCost("right")
    /\ ended # "none" =>
         \A u \in Sides :
           (UnitUsage(u) # NoUsage /\ UnitUsage(u)[1].estimated)
             <=> (hist[u].usageEvents = 0 /\ hist[u].streamed # "")

\* The left side got its usage from the server and the right side, which
\* streamed text but got none, was estimated: both costs are in the sum.
C28_Witness ==
  /\ chatMode = "compare" /\ ended = "normal"
  /\ leftUsage # NoUsage /\ ~leftUsage[1].estimated
  /\ rightUsage # NoUsage /\ rightUsage[1].estimated
  /\ leftUsage[1].cost > 0 /\ rightUsage[1].cost > 0
  /\ combinedCost(leftUsage, rightUsage) = leftUsage[1].cost + rightUsage[1].cost

\* C29: when a send has ended and a unit has neither streamed text nor been
\* delivered a usage-bearing done or complete event, the unit has no usage
\* record and no addUsage call was made for it; when this is so of every
\* unit of the send the session totals are those at the send; and when the
\* send ended by a thrown failure (a response that is not 2xx, a missing
\* body, a failure before the first delta) the unit displays the error's
\* text.
C29_NothingStreamedNothingCounted ==
  (chatMode \in {"single", "compare"} /\ ended # "none") =>
    LET silent == {u \in ActiveUnits :
                     hist[u].streamed = "" /\ hist[u].usageEvents = 0}
    IN  /\ \A u \in silent :
             /\ UnitUsage(u) = NoUsage
             /\ CallsOf(u) = <<>>
             /\ ended = "thrown" => UnitOutput(u) \in ThrownMessages
        /\ silent = ActiveUnits => Totals = totalsAtSubmit

\* A single-mode send failed before any text or usage arrived: the error is
\* on screen, there is no usage record and the totals did not move.
C29_Witness ==
  /\ chatMode = "single" /\ ended = "thrown"
  /\ hist["single"].streamed = "" /\ hist["single"].usageEvents = 0
  /\ response = "Failed to fetch"
  /\ usage = NoUsage /\ Totals = totalsAtSubmit
  /\ sends = 2

\* ------------------------------------------------------------------------
\* The text of a single-mode answer
\* ------------------------------------------------------------------------

\* Single-mode events with two different texts, so that the order of the
\* deltas shows in what is displayed.
TextEvents ==
  {e \in SingleEvents : e.type # "complete" /\ e.message = ""
                        /\ e.usage \in {Absent, Some([prompt_tokens |-> Some(10),
                                                       completion_tokens |-> Some(5)])}}
    \cup {Ev("delta", "de", NoSide, Absent, "")}

NextSingleText ==
  \/ \E p \in Prompts : SetPrompt(p)
  \/ SingleSubmit
  \/ \E e \in TextEvents : SingleDeliver(e)
  \/ SingleEnd
  \/ \E m \in ThrownMessages : SingleFail(m)

SpecSingleText == InitStream /\ [][NextSingleText]_vars

\* C27: in single mode the text accumulated for accounting is at every
\* moment the concatenation, in arrival order, of the texts of the delta
\* events delivered since the send, and until a failure is caught the
\* displayed response is that same text; a delta whose text is empty or
\* absent changes neither of them.
C27_ResponseIsDeltaConcatenation ==
  /\ accumulated = hist["single"].streamed
  /\ ended # "thrown" => response = accumulated
  /\ ended = "thrown" => response \in ThrownMessages

\* Two different texts and a third event have arrived, and the stream is
\* still being read.
C27_Witness ==
  /\ busy /\ delivered = 3
  /\ response = "abcde" /\ accumulated = "abcde"

\* ------------------------------------------------------------------------
\* Segments the decoder passes over
\* ------------------------------------------------------------------------

\* The complete segments of a body, and those of them that are data
\* segments with a payload.
CompleteSegments(b) == Front(Split(b))
HasMarker(segment) ==
  Len(segment) >= Len(Marker) /\ SubSeq(segment, 1, Len(Marker)) = Marker
Payload(segment) == Trim(SubSeq(segment, Len(Marker) + 1, Len(segment)))
Forwardable(segment) == HasMarker(segment) /\ Payload(segment) # <<>>

\* C26: the events of a body are those of its complete segments that begin
\* with the data marker and have a non-empty trimmed payload, one event per
\* such segment, in their order, as if the other complete segments were not
\* there: read to its end the body has yielded exactly these events, and a
\* decoder stopped by a payload that is not JSON has yielded exactly those
\* before the first such payload.
C26_OnlyDataSegmentsForwarded ==
  LET kept == SelectSeq(CompleteSegments(body), Forwardable)
      bad == {i \in DOMAIN kept : ~JsonValid(Payload(kept[i]))}
      due == IF bad = {} THEN Len(kept)
             ELSE (CHOOSE i \in bad : \A j \in bad : i <= j) - 1
  IN  /\ Len(yielded) <= due
      /\ \A i \in DOMAIN yielded : yielded[i] = JsonParse(Payload(kept[i]))
      /\ reader = "done" => (bad = {} /\ Len(yielded) = due)
      /\ reader = "thrown" => (bad # {} /\ Len(yielded) = due)

\* A body with a data segment worth an event after a complete segment that
\* is not empty and is worth none has been read to its end.
C26_Witness ==
  LET segments == CompleteSegments(body)
  IN  /\ reader = "done"
      /\ yielded = <<1>>
      /\ \E i, j \in DOMAIN segments :
            /\ i < j
            /\ segments[i] # <<>> /\ ~Forwardable(segments[i])
            /\ Forwardable(segments[j])

\* ------------------------------------------------------------------------
\* Responses that end inside a frame
\* ------------------------------------------------------------------------

\* The payload lists of responses whose last frame comes without its
\* closing separator: the connection closes after the payload, or after one
\* line break.
CutScripts ==
  { << <<"2">> >>,
    << <<"1">>, <<"2">> >>,
    << <<"1">>, <<"1">> >>,
    << <<"2">>, <<"2">> >> }

Shortfalls == {1, 2}

CutBodyOf(ps, k) == LET b == BodyOf(ps) IN SubSeq(b, 1, Len(b) - k)

CutBodies == {CutBodyOf(ps, k) : ps \in CutScripts, k \in Shortfalls}

NextStreamCut ==
  \/ \E p \in Prompts : SetPrompt(p)
  \/ SingleSubmit
  \/ \E b \in CutBodies : ResponseArrives(b)
  \/ \E n \in 1..(2 * (Len(Marker) + 4)) : StreamChunk(n)
  \/ StreamDone
  \/ StreamAbort("Failed to fetch")

SpecStreamCut == InitStream /\ [][NextStreamCut]_vars

\* The payloads of the cut body being read.
CutScriptOf(b) == CHOOSE ps \in CutScripts : \E k \in Shortfalls : CutBodyOf(ps, k) = b

\* C25: at the end of the stream the decoder flushes nothing.  Of a body
\* whose last frame lacks the closing separator, exactly the frames before
\* the last are yielded and the last one stays in the buffer, unparsed.
\* When that last frame is the usage-bearing terminal event, the panel has
\* handled no usage event when the send ends: its usage record is the
\* estimate made from the text streamed, accounted once, or, when no text
\* streamed, there is no usage record and the totals are those at the send.
C25_TrailingFrameDropped ==
  (reader = "done" /\ ~busy) =>
    LET ps == CutScriptOf(body)
        before == Front(ps)
        text == DeltaText(before)
        served == Len(SelectSeq(before, LAMBDA payload : payload = <<"2">>))
    IN  /\ ended = "normal"
        /\ Len(yielded) = Len(before)
        /\ \A i \in DOMAIN yielded : yielded[i] = (IF before[i] = <<"1">> THEN 1 ELSE 2)
        /\ buffer # <<>> /\ StartsWith(buffer, Marker)
        /\ accumulated = text
        /\ hist["single"].usageEvents = served
        /\ (Last(ps) = <<"2">> /\ served = 0) =>
             IF text = ""
             THEN usage = NoUsage /\ calls = <<>> /\ Totals = totalsAtSubmit
             ELSE /\ usage # NoUsage /\ usage[1].estimated
                  /\ calls = <<Call("single", EstimatedUsage(promptRef, text, single))>>
                  /\ Totals = addUsage(totalsAtSubmit, usage[1])

\* A stream that sent text and then the done event with usage, cut before
\* the closing separator, has ended: the usage shown is an estimate.
C25_Witness ==
  /\ reader = "done" /\ ~busy
  /\ body = CutBodyOf(<< <<"1">>, <<"2">> >>, 2)
  /\ usage # NoUsage /\ usage[1].estimated
  /\ hist["single"].usageEvents = 0

\* ------------------------------------------------------------------------
\* Claims on the transport
\* ------------------------------------------------------------------------

\* C21: one accepted send opens exactly one transport stream and nothing is
\* retried: the number of requests issued always equals the number of
\* accepted sends, and a request is issued only by the step in which an
\* idle panel accepts a send, never by a step that delivers an event or
\* ends or fails a stream.
C21_OneRequestPerSend ==
  /\ [](requests = sends)
  /\ [][requests' # requests =>
          /\ ~busy /\ busy'
          /\ requests' = requests + 1
          /\ sends' = sends + 1]_vars

\* A send has failed in the transport and no second request went out.
C21_Witness ==
  /\ chatMode = "single" /\ ended = "thrown" /\ ~busy
  /\ sends = 1 /\ requests = 1


\* ------------------------------------------------------------------------
\* Termination of a send
\* ------------------------------------------------------------------------

\* The stream of the send in flight terminates: the generator returns, or
\* the transport or the decoder throws.
Terminates ==
  \/ SingleEnd
  \/ \E m \in ThrownMessages : SingleFail(m)
  \/ CompareEnd
  \/ \E m \in ThrownMessages : CompareFail(m)
  \/ CrewEnd
  \/ \E m \in ThrownMessages : CrewFail(m)

\* The events that matter to how a send terminates: text, a usage-bearing
\* terminal event and an error event, in each mode.
LiveSingleEvents ==
  {e \in SingleEvents : \/ e.type = "delta" /\ e.text # ""
                        \/ e.type = "done" /\ e.usage # Absent
                        \/ e.type = "error" /\ e.message # ""}
LiveCompareEvents ==
  {e \in CompareEvents : /\ e.side = "left"
                         /\ \/ e.type = "delta" /\ e.text # ""
                            \/ e.type = "error" /\ e.message # ""}
LiveCrewEvents ==
  {e \in CrewEvents : \/ e.type = "agent_delta" /\ e.agent = "planner" /\ e.text = "step 1"
                      \/ e.type = "crew_done" /\ e.totalCost = Some(2)
                      \/ e.type = "error" /\ e.message # ""}

NextLive ==
  \/ \E p \in Prompts : SetPrompt(p)
  \/ SingleSubmit
  \/ \E e \in LiveSingleEvents : SingleDeliver(e)
  \/ SingleEnd
  \/ \E m \in ThrownMessages : SingleFail(m)
  \/ CompareSubmit
  \/ \E e \in LiveCompareEvents : CompareDeliver(e)
  \/ CompareEnd
  \/ \E m \in ThrownMessages : CompareFail(m)
  \/ \E t \in Tasks : SetTask(t)
  \/ CrewSubmit
  \/ \E e \in LiveCrewEvents : CrewDeliver(e)
  \/ CrewEnd
  \/ \E m \in ThrownMessages : CrewFail(m)

\* The application under the assumption that a stream, once opened,
\* terminates in one of these ways.
SpecAppLive == InitApp /\ [][NextLive]_vars /\ WF_vars(Terminates)

\* C22: whenever a panel is busy with a send whose stream terminates, the
\* busy flag eventually returns to false; once the send has terminated the
\* flag is false, and the panel then accepts a new send as soon as its input
\* is not blank.
C22_BusyEventuallyCleared ==
  /\ (busy \/ isRunning) ~> ~(busy \/ isRunning)
  /\ [](ended # "none" => ~busy /\ ~isRunning)
  /\ [](ended # "none" /\ chatMode = "single" /\ TrimNonEmpty(prompt) => canSend)

\* A send failed in the transport, the flag is down and the panel is ready
\* for the next send.
C22_Witness ==
  /\ chatMode = "single" /\ ended = "thrown" /\ ~busy
  /\ canSend /\ sends = 1


\* C24: while a panel's stream is in flight no step of the panel accepts a
\* send: the send count, the request count and the pre-send snapshot stay
\* as they are, so the panel has at most one stream in flight.  Nothing but
\* the termination of that stream (its end or a thrown failure) clears the
\* busy flag: there is no timeout, and a stream that stalls keeps the panel
\* busy.
C24_BusyRejectsSubmit ==
  [][/\ busy \/ isRunning =>
          sends' = sends /\ requests' = requests /\ submitted' = submitted
     /\ (busy /\ ~busy') \/ (isRunning /\ ~isRunning') =>
          ended = "none" /\ ended' \in {"normal", "thrown"}]_vars

\* A stream is in flight and has delivered an event, and the prompt is one
\* that an idle panel would accept.
C24_Witness ==
  /\ chatMode = "single" /\ busy
  /\ TrimNonEmpty(prompt)
  /\ sends = 1 /\ delivered >= 1

\* ------------------------------------------------------------------------
\* Agents the crew stream names without listing them
\* ------------------------------------------------------------------------

\* Crew streams that may or may not list the planner before naming it, with
\* an agent_delta whose text is empty among the events.
LazyEvents ==
  {e \in CrewEvents :
     \/ e.type = "crew_start" /\ e.agents = Some(<<"planner">>)
     \/ e.type = "agent_start" /\ e.agent # "" /\ e.model = "m1"
     \/ e.type = "agent_delta" /\ e.agent = "planner" /\ e.text \in {"", "step 1"}
     \/ e.type = "agent_done" /\ e.agent = "planner" /\ e.cost = Some(5)
     \/ e.type = "agent_done" /\ e.agent = "coder" /\ e.cost = Absent /\ e.tokens = Absent}

NextLazy ==
  \/ \E t \in Tasks : SetTask(t)
  \/ CrewSubmit
  \/ \E e \in LazyEvents : CrewDeliver(e)
  \/ CrewEnd
  \/ \E m \in ThrownMessages : CrewFail(m)

SpecLazy == InitCrew /\ [][NextLazy]_vars

\* The entry an agent event makes of an agent that has none: the pending
\* default with the event's own fields laid over it.
NamesAgent(e) == e.type \in {"agent_start", "agent_delta", "agent_done"} /\ e.agent # ""
FirstEntry(e) ==
  CASE e.type = "agent_start" ->
         [status |-> "running", text |-> "", model |-> e.model,
          cost |-> Absent, tokens |-> Absent]
    [] e.type = "agent_delta" ->
         [status |-> "pending", text |-> e.text, model |-> "",
          cost |-> Absent, tokens |-> Absent]
    [] e.type = "agent_done" ->
         [status |-> "done", text |-> "", model |-> "",
          cost |-> e.cost, tokens |-> e.tokens]
CreatesEntry(e) ==
  /\ DOMAIN agentOutputs' = DOMAIN agentOutputs \cup {e.agent}
  /\ agentOutputs'[e.agent] = FirstEntry(e)
  /\ \A a \in DOMAIN agentOutputs : agentOutputs'[a] = agentOutputs[a]

AbandonedOnEventDropped(e, c) == c

\* The loop of a handleSubmit whose panel has been unmounted: its closure
\* still holds the store's setters, so the switch acts on the store as
\* before; setError and setIsRunning act on the unmounted component only.
AbandonedOnEvent(e, c) == [CrewOnEvent(e, c) EXCEPT !.error = c.error]

\* A click on a mode button while the crew stream is in flight:
\* setSessionId("") takes the panel off the screen, the effect creates a
\* session, and a new CrewPanel mounts with its initial local state.  The
\* store is untouched and nothing stops the old handleSubmit.
Remount ==
  /\ chatMode = "crew"
  /\ isRunning /\ ~abandoned.inFlight
  /\ task' = "" /\ isRunning' = FALSE /\ error' = Absent
  /\ abandoned' = [inFlight |-> TRUE, applied |-> 0, last |-> Absent]
  /\ UNCHANGED <<decoderVars, choiceVars, crewStoreVars, crewHist, totalVars, chatVars,
                 ended, sends, delivered, requests>>

\* One iteration of the abandoned stream's loop.
AbandonedDeliver(e) ==
  /\ chatMode = "crew"
  /\ abandoned.inFlight
  /\ delivered < MaxCrewEvents
  /\ delivered' = delivered + 1
  /\ LET c == AbandonedOnEvent(e, CrewState)
     IN  /\ agentOutputs' = c.agentOutputs
         /\ synthesisText' = c.synthesisText
         /\ crewTotalCost' = c.crewTotalCost
  /\ abandoned' = [abandoned EXCEPT !.applied = @ + 1, !.last = Some(e)]
  /\ SetTotals(addUsages(Totals, CrewUsageCalls(e)))
  /\ UNCHANGED <<decoderVars, choiceVars, crewBudget, task, isRunning, error, crewHist,
                 chatVars, ended, sends, requests>>

\* The abandoned stream ends or throws; its catch and finally set state of
\* the unmounted component.
AbandonedEnd ==
  /\ chatMode = "crew"
  /\ abandoned.inFlight
  /\ abandoned' = [abandoned EXCEPT !.inFlight = FALSE]
  /\ UNCHANGED <<decoderVars, choiceVars, crewStoreVars, task, isRunning, error, crewHist,
                 totalVars, chatVars, ended, sends, delivered, requests>>

RemountEvents ==
  {e \in CrewEvents :
     \/ e.type = "crew_start" /\ e.agents = Some(<<"planner">>)
     \/ e.type = "agent_start" /\ e.agent = "planner" /\ e.model = "m1"
     \/ e.type = "agent_delta" /\ e.agent = "planner" /\ e.text = "step 1"
     \/ e.type = "agent_done" /\ e.agent = "planner" /\ e.cost = Some(5) /\ e.tokens = Absent
     \/ e.type = "synthesis_delta" /\ e.text = "sum"
     \/ e.type = "crew_done" /\ e.totalCost = Some(2)
     \/ e.type = "error" /\ e.message = "boom"}

NextRemount ==
  \/ \E t \in Tasks : SetTask(t)
  \/ CrewSubmit
  \/ \E e \in RemountEvents : CrewDeliver(e)
  \/ CrewEnd
  \/ \E m \in ThrownMessages : CrewFail(m)
  \/ Remount
  \/ \E e \in RemountEvents : AbandonedDeliver(e)
  \/ AbandonedEnd

SpecRemount == InitCrew /\ [][NextRemount]_vars

\* C23: a crew stream abandoned by a mode switch keeps mutating the shared
\* store.  Every event it delivers, also after a new send has reset the
\* store and while the new send's stream is being read, is applied to
\* agentOutputs, synthesisText and crewTotalCost exactly as the loop's
\* switch applies an event of the current stream.
C23_AbandonedStreamStillApplied ==
  [][abandoned'.applied = abandoned.applied + 1 =>
       LET e == abandoned'.last[1]
           c == CrewOnEvent(e, CrewState)
       IN  /\ agentOutputs' = c.agentOutputs
           /\ synthesisText' = c.synthesisText
           /\ crewTotalCost' = c.crewTotalCost]_vars

\* The new send's stream has started the planner, and the synthesis text on
\* screen is what the abandoned stream delivered after the new send's
\* resetCrewState.
C23_Witness ==
  /\ sends = 2 /\ isRunning
  /\ abandoned.applied >= 1
  /\ abandoned.last[1].type = "synthesis_delta"
  /\ synthesisText = "sum"
  /\ crewHist["planner"].script.stage # "idle"


\* ------------------------------------------------------------------------
\* The fold of a crew stream into the store
\* ------------------------------------------------------------------------

\* Crew streams in which agents are listed, started, fed, finished and
\* started again, the synthesis comes in pieces, and the costs reported go
\* beyond the budget.
FoldEvents ==
  {e \in CrewEvents :
     \/ e.type = "crew_start" /\ e.agents = Some(<<"planner", "coder">>)
     \/ e.type = "agent_start" /\ e.agent = "planner" /\ e.model = "m1"
     \/ e.type = "agent_delta" /\ e.agent = "planner" /\ e.text = "step 1"
     \/ e.type = "agent_done" /\ e.agent # "" /\ e.cost = Some(5) /\ e.tokens = Some(40)
     \/ e.type = "synthesis_delta"
     \/ e.type = "error" /\ e.message = "boom"}
    \cup {CrewEv("synthesis_delta", Absent, "", "", " up", Absent, Absent, Absent, ""),
          CrewEv("crew_done", Absent, "", "", "", Absent, Absent, Some(7), "")}

NextFold ==
  \/ \E t \in Tasks : SetTask(t)
  \/ CrewSubmit
  \/ \E e \in FoldEvents : CrewDeliver(e)
  \/ CrewEnd
  \/ \E m \in ThrownMessages : CrewFail(m)

SpecFold == InitCrew /\ [][NextFold]_vars

\* C31: within one crew stream an agent whose status is done keeps that
\* status: no later event of the stream takes it away from done.
C31_DoneIsFinal ==
  [][sends' = sends =>
       \A a \in Agents :
         (a \in DOMAIN agentOutputs /\ agentOutputs[a].status = "done")
           => (a \in DOMAIN agentOutputs' /\ agentOutputs'[a].status = "done")]_vars


\* C32: between two resets of the crew state the synthesis text only grows
\* at its end.  Every synthesis_delta event processed appends its text (an
\* empty or absent text appends nothing), every other event, the end of the
\* stream and a thrown failure leave the text as it is, so the text is the
\* concatenation, in arrival order, of the synthesis_delta texts processed
\* since the reset.
C32_SynthesisAppendOnly ==
  [][sends' = sends =>
       /\ \E t \in {""} \cup {e.text : e \in FoldEvents} :
            synthesisText' = synthesisText \o t
       /\ \A e \in FoldEvents :
            CrewDeliver(e) =>
              synthesisText' =
                synthesisText \o (IF e.type = "synthesis_delta" THEN e.text ELSE "")]_vars

\* Two different pieces have arrived, in this order, and the stream has
\* ended.
C32_Witness ==
  /\ ended = "normal"
  /\ synthesisText = "sum up"


\* ------------------------------------------------------------------------
\* The two sides of a compare stream, event by event
\* ------------------------------------------------------------------------

\* Compare streams with text, errors with and without a message, and usage
\* for either side, and an error without a side.
SideEvents ==
  {e \in CompareEvents :
     \/ e.type = "delta" /\ e.side \in Sides /\ e.text # ""
     \/ e.type = "error" /\ e.side = "left" /\ e.message = "boom"
     \/ e.type = "error" /\ e.side = "right" /\ e.message = ""
     \/ e.type = "error" /\ e.side = NoSide /\ e.message = "boom"
     \/ e.type = "done" /\ e.side = "left"
          /\ e.usage = Some([prompt_tokens |-> Some(10), completion_tokens |-> Some(5)])
     \/ e.type = "done" /\ e.side = "right"
          /\ e.usage = Some([prompt_tokens |-> Absent, completion_tokens |-> Some(7)])}
    \cup {Ev("complete", "", "right",
              Some([prompt_tokens |-> Some(10), completion_tokens |-> Absent]), "")}

InitSides ==
  /\ InitWith({"compare"}, {DefaultModelId}, {<<"openai/gpt-4o", "anthropic/claude-3-haiku">>})
  /\ DecoderIdle

NextSides ==
  \/ \E p \in Prompts : SetPrompt(p)
  \/ CompareSubmit
  \/ \E e \in SideEvents : CompareDeliver(e)
  \/ CompareEnd
  \/ \E m \in ThrownMessages : CompareFail(m)

SpecSides == InitSides /\ [][NextSides]_vars

\* What the panel displays for an error event.
ErrorText(e) == "Error: " \o (IF e.message # "" THEN e.message ELSE "Stream failed")

\* C33: an error event tagged with a side sets that side's displayed output
\* to the error text when the output is empty and leaves it as it is
\* otherwise; it changes neither that side's accumulator and usage nor the
\* other side's output, accumulator and usage.
C33_SideErrorOnlyWhenEmpty ==
  [][\A e \in SideEvents :
       (e.type = "error" /\ e.side \in Sides /\ CompareDeliver(e)) =>
         /\ e.side = "left" =>
              /\ leftOutput' = (IF leftOutput = "" THEN ErrorText(e) ELSE leftOutput)
              /\ rightOutput' = rightOutput
         /\ e.side = "right" =>
              /\ rightOutput' = (IF rightOutput = "" THEN ErrorText(e) ELSE rightOutput)
              /\ leftOutput' = leftOutput
         /\ UNCHANGED <<leftAccRef, rightAccRef, leftUsage, rightUsage,
                        gotLeftUsage, gotRightUsage>>]_vars

\* The left side had streamed text when its error event came and shows the
\* text still; the right side had nothing and shows the error text.
C33_Witness ==
  /\ busy /\ delivered = 3
  /\ hist["left"].errored /\ hist["right"].errored
  /\ leftOutput = "abc" /\ leftAccRef = "abc"
  /\ rightOutput = "Error: Stream failed" /\ rightAccRef = ""


\* C36: an agent_start, agent_delta or agent_done event that names an agent
\* changes that agent's record only: every other agent's record is there
\* afterwards as it was, no record of a third agent appears, and
\* synthesisText and crewTotalCost are unchanged.
C36_AgentEventTouchesOwnRecord ==
  [][\A e \in FoldEvents :
       (NamesAgent(e) /\ CrewDeliver(e)) =>
         /\ DOMAIN agentOutputs' \subseteq DOMAIN agentOutputs \cup {e.agent}
         /\ \A b \in DOMAIN agentOutputs \ {e.agent} :
              b \in DOMAIN agentOutputs' /\ agentOutputs'[b] = agentOutputs[b]
         /\ synthesisText' = synthesisText
         /\ crewTotalCost' = crewTotalCost]_vars

\* The coder finished and the planner, after that or before, got text: both
\* records stand side by side with what their own events gave them.
C36_Witness ==
  /\ delivered = 2 /\ synthesisText = "" /\ crewTotalCost = 0
  /\ DOMAIN agentOutputs = {"planner", "coder"}
  /\ agentOutputs["coder"] =
       [status |-> "done", text |-> "", model |-> "", cost |-> Some(5), tokens |-> Some(40)]
  /\ agentOutputs["planner"] =
       [status |-> "pending", text |-> "step 1", model |-> "", cost |-> Absent,
        tokens |-> Absent]

\* C37: a crew send never touches the session's usage accumulators: the
\* submit, every event of the stream, its end and a thrown failure all
\* leave sessionTokensIn, sessionTokensOut and sessionCost at the values
\* they had before the send.
C37_CrewLeavesSessionTotals ==
  [][chatMode = "crew" =>
       /\ sessionTokensIn' = sessionTokensIn
       /\ sessionTokensOut' = sessionTokensOut
       /\ sessionCost' = sessionCost]_vars

\* A crew stream whose agents reported tokens and costs and which reported
\* a total has failed; the session's totals are where they were.
C37_Witness ==
  /\ ended = "thrown" /\ delivered >= 3
  /\ crewTotalCost = 7
  /\ \A a \in Agents :
       a \in DOMAIN agentOutputs /\ agentOutputs[a].tokens = Some(40)
  /\ sessionTokensIn = 0 /\ sessionTokensOut = 0 /\ sessionCost = 0

\* C38: every agent record has status pending, running or done, whatever
\* the stream delivered and however it ended; the step that ends the run,
\* by the end of the stream or by a thrown failure, leaves the agent records
\* as they are, so an agent that was running when the stream failed stays
\* running.
C38_NoFailedStatus ==
  /\ [](\A a \in DOMAIN agentOutputs :
          agentOutputs[a].status \in {"pending", "running", "done"})
  /\ [][(isRunning /\ ~isRunning') => agentOutputs' = agentOutputs]_vars

\* The planner was running when the stream failed and is shown running
\* still.
C38_Witness ==
  /\ ended = "thrown" /\ ~isRunning
  /\ error = Some("Failed to fetch")
  /\ "planner" \in DOMAIN agentOutputs
  /\ agentOutputs["planner"].status = "running"

\* The error texts the compare panel can display for the events of a
\* stream.
SideErrorTexts == {ErrorText(e) : e \in {x \in SideEvents : x.type = "error"}}

\* C39: in compare mode, until a thrown failure is caught, each side's
\* displayed output is that side's accumulator or, the accumulator being
\* empty, an error text; it is never an error text mixed with streamed text.
C39_OutputIsTextOrError ==
  (chatMode = "compare" /\ ended # "thrown") =>
    \A u \in Sides :
      \/ UnitOutput(u) = UnitAcc(u)
      \/ UnitAcc(u) = "" /\ UnitOutput(u) \in SideErrorTexts

\* C40: a done or complete event whose usage object lacks prompt_tokens or
\* completion_tokens still settles its unit: the unit's usage record has the
\* field that is there, 0 for the one that is missing, the cost of these
\* counts at the unit's rate and estimated = false, and no estimated record
\* is made or added for the unit, also when it streamed text.
C40_PartialUsageCountsZero ==
  \A u \in ActiveUnits :
    (hist[u].reported # Absent
       /\ (hist[u].reported[1].prompt_tokens = Absent
             \/ hist[u].reported[1].completion_tokens = Absent)) =>
      LET reported == hist[u].reported[1]
          tokensIn == IF reported.prompt_tokens = Absent THEN 0
                      ELSE reported.prompt_tokens[1]
          tokensOut == IF reported.completion_tokens = Absent THEN 0
                       ELSE reported.completion_tokens[1]
      IN  /\ UnitUsage(u) =
               Some([tokensIn |-> tokensIn, tokensOut |-> tokensOut,
                     cost |-> CostAt(tokensIn, tokensOut, UnitModelId(u)),
                     estimated |-> FALSE])
          /\ \A i \in DOMAIN calls : calls[i].unit = u => ~calls[i].info.estimated

\* The right side streamed text, was last told of 10 prompt tokens and no
\* completion tokens, and the send has ended: its record is the server's,
\* with 0 output tokens.
C40_Witness ==
  /\ chatMode = "compare" /\ ended = "normal"
  /\ hist["right"].streamed # ""
  /\ hist["right"].reported =
       Some([prompt_tokens |-> Some(10), completion_tokens |-> Absent])
  /\ rightUsage # NoUsage
  /\ rightUsage[1].tokensIn = 10 /\ rightUsage[1].tokensOut = 0
  /\ ~rightUsage[1].estimated

\* The total the dashboard shows is above the budget.
OverBudget == dashboardTotalCost(agentOutputs, crewTotalCost) > crewBudget

\* C34: crewBudget is a ceiling for display only.  No step of a crew send
\* (the reset at submit, an event, the end of the stream, a failure) changes
\* crewBudget, and an event delivered while the total shown exceeds the
\* budget is applied like any other: agent_start sets running and the model,
\* agent_delta appends its text, agent_done sets done with the cost and
\* tokens reported, synthesis_delta appends, crew_done sets the total.
C34_BudgetNotEnforced ==
  [][/\ crewBudget' = crewBudget
     /\ \A e \in FoldEvents :
          (OverBudget /\ CrewDeliver(e)) =>
            /\ e.type = "agent_start" =>
                 /\ agentOutputs'[e.agent].status = "running"
                 /\ agentOutputs'[e.agent].model = e.model
            /\ (e.type = "agent_delta" /\ e.agent \in DOMAIN agentOutputs) =>
                 agentOutputs'[e.agent].text = agentOutputs[e.agent].text \o e.text
            /\ (e.type = "agent_done" /\ e.agent # "") =>
                 /\ agentOutputs'[e.agent].status = "done"
                 /\ agentOutputs'[e.agent].cost = e.cost
                 /\ agentOutputs'[e.agent].tokens = e.tokens
            /\ e.type = "synthesis_delta" => synthesisText' = synthesisText \o e.text
            /\ e.type = "crew_done" => crewTotalCost' = e.totalCost[1]]_vars

\* Both agents reported a cost of 5 against a budget of 5, the stream's own
\* total is 7, and the planner was started again: whichever of these events
\* came last was applied with the total shown above the budget.
C34_Witness ==
  /\ delivered = 4 /\ crewBudget = 5
  /\ crewTotalCost = 7
  /\ DOMAIN agentOutputs = {"planner", "coder"}
  /\ agentOutputs["planner"].cost = Some(5) /\ agentOutputs["planner"].status = "running"
  /\ agentOutputs["coder"].cost = Some(5) /\ agentOutputs["coder"].status = "done"


\* ------------------------------------------------------------------------
\* Claims on the cost of a usage record
\* ------------------------------------------------------------------------

\* C35: the cost of every usage record added to the session is
\* tokensIn*input + tokensOut*output at the per-million rate of the unit's
\* model id, the rate being the fixed fallback (input 1.0, output 3.0) for a
\* model id the pricing table does not hold; every rate is positive, so a
\* record with a positive token count never costs zero.
C35_CostNeverZero ==
  /\ \A m \in DOMAIN PRICING : PRICING[m].input > 0 /\ PRICING[m].output > 0
  /\ \A i \in DOMAIN calls :
       LET info == calls[i].info
           m == UnitModelId(calls[i].unit)
           input == IF m \in DOMAIN PRICING THEN PRICING[m].input ELSE 100
           output == IF m \in DOMAIN PRICING THEN PRICING[m].output ELSE 300
       IN  /\ info.cost = info.tokensIn * input + info.tokensOut * output
           /\ info.tokensIn + info.tokensOut > 0 => info.cost > 0

\* A unit whose model id is not in the pricing table was charged for a
\* server-reported usage of 7 output tokens and no input tokens.
C35_Witness ==
  /\ chatMode = "single" /\ single \notin DOMAIN PRICING
  /\ Len(calls) = 1
  /\ calls[1].info.tokensIn = 0 /\ calls[1].info.tokensOut = 7
  /\ calls[1].info.cost = 2100

====
